---- MODULE Spec2Model ----
(***************************************************************************)
(* Beanfolio: the snapshot export subsystem and the Google Sheets ledger   *)
(* service (src/src/services/googleLedger.ts), together with the handlers  *)
(* of the application shell that drive them (the App component).           *)
(*                                                                         *)
(* Conventions of the translation                                          *)
(*   - a JavaScript string is a sequence of one-character strings, so that *)
(*     trim(), includes() and replace() are computed character by          *)
(*     character; Str renders such a sequence as a TLA+ string wherever the *)
(*     code puts it into a template literal or a JSON payload;             *)
(*   - a GridCellValue is a record [kind, num, nf, bool, str]; nf tells a  *)
(*     finite number from NaN, Infinity and -Infinity;                     *)
(*   - an optional string (formula?: string, label?: string) is a record   *)
(*     [def, str];                                                         *)
(*   - a JavaScript object literal is a function from its own keys, the    *)
(*     empty object being the function with the empty domain.              *)
(***************************************************************************)
EXTENDS Integers, Sequences, FiniteSets, TLC

(***************************************************************************)
(* Bounds of the model                                                     *)
(***************************************************************************)
MaxRows == 2
MaxSnapshotRows == 4
MaxPad == 3
AppGridRows == 2
MaxTasks == 3
MaxAppends == 2
MaxCols == 2
MaxFiles == 2
MaxSheets == 2
MaxEntries == 2
MaxPresetCalls == 2
MaxCycles == 4
MaxSignIns == 2
MaxLoadCalls == 3
\* the step of the clock of the menu timers, in milliseconds
TickMs == 110
\* the length of the formula editor's text up to which the model takes
\* events: nothing is typed into a text of this length, nothing is pointed
\* at from a longer one
MaxInputLength == 4

(***************************************************************************)
(* Program constants                                                       *)
(***************************************************************************)
BLANK_GAP_ROWS == 4
LEDGER_FILE_NAME == "Beanfolio"
ARCHIVE_SHEET_NAME == "Archive"

(***************************************************************************)
(* Strings                                                                 *)
(***************************************************************************)
Whitespace == {" ", "\t", "\n", "\r"}

RECURSIVE Str(_)
Str(s) == IF s = <<>> THEN "" ELSE Head(s) \o Str(Tail(s))

RECURSIVE TrimStart(_)
TrimStart(s) ==
  IF s # <<>> /\ Head(s) \in Whitespace THEN TrimStart(Tail(s)) ELSE s

RECURSIVE TrimEnd(_)
TrimEnd(s) ==
  IF s # <<>> /\ s[Len(s)] \in Whitespace
    THEN TrimEnd(SubSeq(s, 1, Len(s) - 1))
    ELSE s

Trim(s) == TrimEnd(TrimStart(s))

SeqsUpTo(S, n) == UNION {[1..k -> S] : k \in 0..n}

Max(a, b) == IF a >= b THEN a ELSE b

(***************************************************************************)
(* types.ts: GridCellValue, CellSnapshot, SaveRequest, LedgerTarget        *)
(***************************************************************************)
NullValue == [kind |-> "null", num |-> 0, nf |-> "finite", bool |-> FALSE, str |-> <<>>]
NumberValue(n) == [kind |-> "number", num |-> n, nf |-> "finite", bool |-> FALSE, str |-> <<>>]
NonFiniteValue(tag) == [kind |-> "number", num |-> 0, nf |-> tag, bool |-> FALSE, str |-> <<>>]
BooleanValue(b) == [kind |-> "boolean", num |-> 0, nf |-> "finite", bool |-> b, str |-> <<>>]
StringValue(s) == [kind |-> "string", num |-> 0, nf |-> "finite", bool |-> FALSE, str |-> s]

Undefined == [def |-> FALSE, str |-> <<>>]
Defined(s) == [def |-> TRUE, str |-> s]
\* JavaScript truthiness of an optional string: defined and not ''
Truthy(opt) == opt.def /\ opt.str # <<>>

CellSnapshot(v, f) == [displayValue |-> v, formula |-> f]

IsFinite(value) == value.kind = "number" /\ value.nf = "finite"

(***************************************************************************)
(* Inputs of the model: the texts, cell values and grids the operations    *)
(* are applied to                                                          *)
(***************************************************************************)
Texts ==
  { <<>>, <<" ">>, <<"a">>, <<" ", " ">>, <<" ", "a">>, <<"a", " ">>,
    <<"a", "a">>, <<" ", "a", " ">>, <<"\t">>, <<"a", "\n">>,
    <<"\"">>, <<"a", ",">>, <<"<", "&">>, <<"a", "\t", "a">>,
    <<"a", "\r", "\n", "a">> }

Formulas ==
  { Undefined, Defined(<<>>), Defined(<<"=", "A", "1">>),
    Defined(<<" ", "=", "A", "1">>), Defined(<<"=">>),
    Defined(<<"=", "=", "A", "<", "1">>) }

DisplayValues ==
  {NullValue} \cup {NumberValue(n) : n \in {0, 5, -3}}
    \cup {NonFiniteValue(t) : t \in {"NaN", "Infinity", "-Infinity"}}
    \cup {BooleanValue(b) : b \in BOOLEAN}
    \cup {StringValue(s) : s \in Texts}

\* every cell value the exporters tell apart
AllCells == {CellSnapshot(v, f) : v \in DisplayValues, f \in Formulas}

BlankCell == CellSnapshot(NullValue, Undefined)
\* the cells multi-row grids are made of
GridCells == {BlankCell, CellSnapshot(NumberValue(5), Undefined)}

\* the rows of a request: up to MaxCols filled cells, or one blank cell
GridRows ==
  {[c \in 1..n |-> CellSnapshot(NumberValue(5), Undefined)] : n \in 0..MaxCols}
    \cup {<<BlankCell>>}
Grids == SeqsUpTo(GridRows, MaxRows) \cup {<<(<<c>>)>> : c \in AllCells}

Labels == {Undefined} \cup {Defined(s) : s \in {<<>>, <<" ">>, <<"a">>, <<" ", "a", " ">>}}
ColumnCounts == {-1, 0, 1, 3}

SaveRequests ==
  {[label |-> l, cells |-> g, columnCount |-> n] :
     l \in Labels, g \in Grids, n \in ColumnCounts}

(***************************************************************************)
(* services/googleLedger.ts: the append payload                            *)
(***************************************************************************)
EmptyObject == [k \in {} |-> TRUE]
\* a function result of null: no value
NoValue == [none |-> TRUE]

\* mutant: the string value is sent trimmed
toUserEnteredValueTrimmed(value) ==
  IF value.kind = "null" THEN NoValue
  ELSE IF value.kind = "number"
    THEN (IF ~IsFinite(value) THEN NoValue ELSE [numberValue |-> value.num])
  ELSE IF value.kind = "boolean" THEN [boolValue |-> value.bool]
  ELSE IF Trim(value.str) = <<>> THEN NoValue
  ELSE [stringValue |-> Str(Trim(value.str))]

toUserEnteredValue(value) ==
  IF value.kind = "null" THEN NoValue
  ELSE IF value.kind = "number"
    THEN (IF ~IsFinite(value) THEN NoValue ELSE [numberValue |-> value.num])
  ELSE IF value.kind = "boolean" THEN [boolValue |-> value.bool]
  ELSE IF Trim(value.str) = <<>> THEN NoValue
  ELSE [stringValue |-> Str(value.str)]

toGoogleCellData(cell) ==
  LET userEnteredValue == toUserEnteredValue(cell.displayValue)
      keys == (IF userEnteredValue # NoValue THEN {"userEnteredValue"} ELSE {})
                \cup (IF Truthy(cell.formula) THEN {"note"} ELSE {})
  IN  [k \in keys |->
         IF k = "userEnteredValue"
           THEN userEnteredValue
           ELSE "Formula: " \o Str(cell.formula.str)]

buildBlankRow(columnCount) ==
  [values |-> [i \in 1..columnCount |-> EmptyObject]]

\* mutant: the label row is decided on the untrimmed label
buildAppendRowsUntrimmedLabel(label, cells, columnCount) ==
  LET safeColumnCount == Max(1, columnCount)
      gapRows == [i \in 1..BLANK_GAP_ROWS |-> buildBlankRow(safeColumnCount)]
      labelRow ==
        [values |->
           [buildBlankRow(safeColumnCount).values EXCEPT
              ![1] = [userEnteredValue |-> [stringValue |-> Str(label)]]]]
      labelRows == IF Len(label) > 0 THEN <<labelRow>> ELSE <<>>
      dataRows ==
        [r \in 1..Len(cells) |->
           [values |-> [c \in 1..Len(cells[r]) |-> toGoogleCellData(cells[r][c])]]]
  IN  gapRows \o labelRows \o dataRows

\* mutant: the blank rows are built with columnCount itself, not max(1, columnCount)
buildAppendRowsNoMinimum(label, cells, columnCount) ==
  LET gapRows == [i \in 1..BLANK_GAP_ROWS |-> buildBlankRow(columnCount)]
      trimmedLabel == Trim(label)
      labelRow ==
        [values |-> <<[userEnteredValue |-> [stringValue |-> Str(trimmedLabel)]]>>
                      \o SubSeq(buildBlankRow(columnCount).values, 2, columnCount)]
      labelRows == IF Len(trimmedLabel) > 0 THEN <<labelRow>> ELSE <<>>
      dataRows ==
        [r \in 1..Len(cells) |->
           [values |-> [c \in 1..Len(cells[r]) |-> toGoogleCellData(cells[r][c])]]]
  IN  gapRows \o labelRows \o dataRows

\* mutant: nothing to append gives no rows at all
buildAppendRowsEmptyWhenNothing(label, cells, columnCount) ==
  LET safeColumnCount == Max(1, columnCount)
      gapRows == [i \in 1..BLANK_GAP_ROWS |-> buildBlankRow(safeColumnCount)]
      trimmedLabel == Trim(label)
      labelRow ==
        [values |->
           [buildBlankRow(safeColumnCount).values EXCEPT
              ![1] = [userEnteredValue |-> [stringValue |-> Str(trimmedLabel)]]]]
      labelRows == IF Len(trimmedLabel) > 0 THEN <<labelRow>> ELSE <<>>
      dataRows ==
        [r \in 1..Len(cells) |->
           [values |-> [c \in 1..Len(cells[r]) |-> toGoogleCellData(cells[r][c])]]]
  IN  IF Len(trimmedLabel) = 0 /\ Len(cells) = 0
        THEN <<>>
        ELSE gapRows \o labelRows \o dataRows

buildAppendRows(label, cells, columnCount) ==
  LET safeColumnCount == Max(1, columnCount)
      gapRows == [i \in 1..BLANK_GAP_ROWS |-> buildBlankRow(safeColumnCount)]
      trimmedLabel == Trim(label)
      labelRow ==
        [values |->
           [buildBlankRow(safeColumnCount).values EXCEPT
              ![1] = [userEnteredValue |-> [stringValue |-> Str(trimmedLabel)]]]]
      labelRows == IF Len(trimmedLabel) > 0 THEN <<labelRow>> ELSE <<>>
      dataRows ==
        [r \in 1..Len(cells) |->
           [values |-> [c \in 1..Len(cells[r]) |-> toGoogleCellData(cells[r][c])]]]
  IN  gapRows \o labelRows \o dataRows

(***************************************************************************)
(* services/googleLedger.ts: the HTTP exchange                             *)
(***************************************************************************)
VARIABLES
  pc,              \* the await the running service call is suspended at
  request,         \* the SaveRequest of appendLedgerBlock
  existingFile,    \* findOrCreateMiniLedger: the file the listing gave
  metadata,        \* findOrCreateMiniLedger: the metadata fetched
  fetchCalls,      \* the fetch requests issued so far, in order
  fetchResponses,  \* the responses received so far, in order
  outcome          \* how the promise of the service call settled

ledgerVars ==
  <<pc, request, existingFile, metadata, fetchCalls, fetchResponses, outcome>>

Statuses == {200, 403, 500}
ResponseOk(response) == response.status >= 200 /\ response.status <= 299

NoData == [none |-> TRUE]
NoFile == [id |-> ""]
NoMetadata == [spreadsheetId |-> "", title |-> "", sheets |-> <<>>]
NoRequest == [label |-> Undefined, cells |-> <<>>, columnCount |-> 0]

\* the bodies a failed request comes with: not JSON, JSON without
\* error.message, JSON with error.message
ErrorBodies ==
  { [parses |-> FALSE, hasMessage |-> FALSE, message |-> ""],
    [parses |-> TRUE, hasMessage |-> FALSE, message |-> ""],
    [parses |-> TRUE, hasMessage |-> TRUE, message |-> "Permission denied."],
    [parses |-> TRUE, hasMessage |-> TRUE, message |-> ""] }

\* what fetch can settle with when the 2xx bodies are Payloads
Responses(Payloads) ==
  { [network |-> "failed", status |-> 0, parses |-> FALSE, hasMessage |-> FALSE,
     message |-> "", data |-> NoData] }
  \cup
  { [network |-> "ok", status |-> st, parses |-> e.parses,
     hasMessage |-> e.hasMessage, message |-> e.message, data |-> NoData] :
       st \in {x \in Statuses : x > 299}, e \in ErrorBodies }
  \cup
  { [network |-> "ok", status |-> st, parses |-> FALSE, hasMessage |-> FALSE,
     message |-> "", data |-> NoData] : st \in {x \in Statuses : x <= 299} }
  \cup
  { [network |-> "ok", status |-> st, parses |-> TRUE, hasMessage |-> FALSE,
     message |-> "", data |-> d] :
       st \in {x \in Statuses : x <= 299}, d \in Payloads }

FileIds == {"spreadsheet-1", "spreadsheet-2"}
DriveFiles == {[id |-> i] : i \in FileIds}
ListPayloads ==
  {[hasFiles |-> FALSE, files |-> <<>>]}
    \cup {[hasFiles |-> TRUE, files |-> fs] : fs \in SeqsUpTo(DriveFiles, MaxFiles)}

SheetProperties ==
  { [sheetId |-> 1, title |-> "Sheet1"],
    [sheetId |-> 2, title |-> "Sheet2"],
    [sheetId |-> 9, title |-> ARCHIVE_SHEET_NAME],
    [sheetId |-> 7, title |-> ARCHIVE_SHEET_NAME] }
\* the sheets of one spreadsheet have distinct titles
SheetLists ==
  {sh \in SeqsUpTo(SheetProperties, MaxSheets) :
     \A i, j \in 1..Len(sh) : sh[i].title = sh[j].title => i = j}
MetadataPayloads(ids) ==
  {[spreadsheetId |-> i, title |-> LEDGER_FILE_NAME, sheets |-> sh] :
     i \in ids, sh \in SheetLists}

\* replies[0]?.addSheet?.properties of the addSheet reply
AddSheetPayloads ==
  { [replies |-> <<>>],
    [replies |-> <<[hasAddSheet |-> FALSE, properties |-> [sheetId |-> 0, title |-> ""]]>>] }
  \cup
  { [replies |-> <<[hasAddSheet |-> TRUE, properties |-> [sheetId |-> n, title |-> ARCHIVE_SHEET_NAME]]>>] :
      n \in {5, 9} }

Threw(message) == [threw |-> TRUE, message |-> message, value |-> NoData]
Returned(value) == [threw |-> FALSE, message |-> "", value |-> value]

\* mutant: the remote error.message is dropped
googleApiFetchGenericMessage(response) ==
  IF response.network = "failed" THEN Threw("Failed to fetch")
  ELSE IF ~ResponseOk(response)
    THEN Threw("Google API request failed (" \o ToString(response.status) \o ").")
  ELSE IF ~response.parses THEN Threw("Unexpected end of JSON input")
  ELSE Returned(response.data)

googleApiFetch(response) ==
  IF response.network = "failed" THEN Threw("Failed to fetch")
  ELSE IF ~ResponseOk(response)
    THEN Threw(IF response.parses /\ response.hasMessage
                 THEN response.message
                 ELSE "Google API request failed (" \o ToString(response.status) \o ").")
  ELSE IF ~response.parses THEN Threw("Unexpected end of JSON input")
  ELSE Returned(response.data)

Pending == [state |-> "pending", message |-> "", value |-> NoData]
Rejected(message) == [state |-> "rejected", message |-> message, value |-> NoData]
Fulfilled(value) == [state |-> "fulfilled", message |-> "", value |-> value]

\* mutant: the first sheet is taken whatever its title
FindFirstSheet(sheets, title) == IF Len(sheets) = 0 THEN 0 ELSE 1

Find(sheets, title) ==
  LET hits == {i \in 1..Len(sheets) : sheets[i].title = title}
  IN  IF hits = {} THEN 0 ELSE CHOOSE i \in hits : \A j \in hits : i <= j

\* mutant: the last listed file is taken
lastListedFile(data) ==
  IF data.hasFiles /\ Len(data.files) > 0 THEN data.files[Len(data.files)] ELSE NoFile

\* response.files?.[0] ?? null
firstListedFile(data) ==
  IF data.hasFiles /\ Len(data.files) > 0 THEN data.files[1] ELSE NoFile

LedgerInit ==
  /\ pc = "idle"
  /\ request = NoRequest
  /\ existingFile = NoFile
  /\ metadata = NoMetadata
  /\ fetchCalls = <<>>
  /\ fetchResponses = <<>>
  /\ outcome = Pending

Ledger == [spreadsheetId |-> "spreadsheet-1", spreadsheetTitle |-> LEDGER_FILE_NAME,
           sheetId |-> 9, sheetTitle |-> ARCHIVE_SHEET_NAME]

\* appendLedgerBlock up to its await
appendLedgerBlock(req) ==
  LET rows == buildAppendRows(IF req.label.def THEN req.label.str ELSE <<>>,
                              req.cells, req.columnCount)
  IN  /\ pc = "idle"
      /\ request' = req
      /\ IF Len(rows) = 0
           THEN /\ pc' = "settled"
                /\ outcome' = Fulfilled(NoData)
                /\ fetchCalls' = fetchCalls
           ELSE /\ pc' = "append"
                /\ outcome' = outcome
                /\ fetchCalls' = Append(fetchCalls,
                     [api |-> "appendCells", method |-> "POST",
                      spreadsheetId |-> Ledger.spreadsheetId,
                      sheetId |-> Ledger.sheetId, rows |-> rows,
                      fields |-> "userEnteredValue,note"])
      /\ UNCHANGED <<existingFile, metadata, fetchResponses>>

\* appendLedgerBlock after its await
appendLedgerBlockSettled(response) ==
  LET result == googleApiFetch(response)
  IN  /\ pc = "append"
      /\ fetchResponses' = Append(fetchResponses, response)
      /\ pc' = "settled"
      /\ outcome' = IF result.threw THEN Rejected(result.message) ELSE Fulfilled(NoData)
      /\ UNCHANGED <<request, existingFile, metadata, fetchCalls>>

\* findOrCreateMiniLedger up to the await of the Drive listing
findOrCreateMiniLedger ==
  /\ pc = "idle"
  /\ pc' = "list"
  /\ fetchCalls' = Append(fetchCalls,
       [api |-> "files.list", method |-> "GET", spreadsheetId |-> "",
        name |-> LEDGER_FILE_NAME])
  /\ UNCHANGED <<request, existingFile, metadata, fetchResponses, outcome>>

\* the listing settles: response.files?.[0] ?? null, then createMiniLedger or
\* getSpreadsheetMetadata up to their await
findMostRecentlyModifiedLedger(response) ==
  LET result == googleApiFetch(response)
      file == IF result.threw THEN NoFile ELSE firstListedFile(result.value)
  IN  /\ pc = "list"
      /\ fetchResponses' = Append(fetchResponses, response)
      /\ IF result.threw
           THEN /\ pc' = "settled"
                /\ outcome' = Rejected(result.message)
                /\ UNCHANGED <<existingFile, fetchCalls>>
           ELSE IF file = NoFile
             THEN /\ pc' = "create"
                  /\ fetchCalls' = Append(fetchCalls,
                       [api |-> "spreadsheets.create", method |-> "POST",
                        spreadsheetId |-> "", title |-> LEDGER_FILE_NAME,
                        sheets |-> <<ARCHIVE_SHEET_NAME>>])
                  /\ UNCHANGED <<existingFile, outcome>>
             ELSE /\ pc' = "metadata"
                  /\ existingFile' = file
                  /\ fetchCalls' = Append(fetchCalls,
                       [api |-> "spreadsheets.get", method |-> "GET",
                        spreadsheetId |-> file.id])
                  /\ outcome' = outcome
      /\ UNCHANGED <<request, metadata>>

\* the metadata settles, then ensureArchiveSheet up to its await
getSpreadsheetMetadata(response) ==
  LET result == googleApiFetch(response)
      existing == IF result.threw THEN 0 ELSE Find(result.value.sheets, ARCHIVE_SHEET_NAME)
  IN  /\ pc = "metadata"
      /\ fetchResponses' = Append(fetchResponses, response)
      /\ IF result.threw
           THEN /\ pc' = "settled"
                /\ outcome' = Rejected(result.message)
                /\ UNCHANGED <<metadata, fetchCalls>>
           ELSE /\ metadata' = result.value
                /\ IF existing # 0
                     THEN /\ pc' = "settled"
                          /\ outcome' = Fulfilled(
                               [spreadsheetId |-> result.value.spreadsheetId,
                                spreadsheetTitle |-> result.value.title,
                                sheetId |-> result.value.sheets[existing].sheetId,
                                sheetTitle |-> result.value.sheets[existing].title])
                          /\ fetchCalls' = fetchCalls
                     ELSE /\ pc' = "addSheet"
                          /\ outcome' = outcome
                          /\ fetchCalls' = Append(fetchCalls,
                               [api |-> "addSheet", method |-> "POST",
                                spreadsheetId |-> result.value.spreadsheetId,
                                title |-> ARCHIVE_SHEET_NAME])
      /\ UNCHANGED <<request, existingFile>>

\* the addSheet batchUpdate settles
ensureArchiveSheet(response) ==
  LET result == googleApiFetch(response)
      hasProperties ==
        /\ ~result.threw
        /\ Len(result.value.replies) > 0
        /\ result.value.replies[1].hasAddSheet
  IN  /\ pc = "addSheet"
      /\ fetchResponses' = Append(fetchResponses, response)
      /\ pc' = "settled"
      /\ outcome' =
           IF result.threw THEN Rejected(result.message)
           ELSE IF ~hasProperties THEN Rejected("Unable to create Archive sheet.")
           ELSE Fulfilled(
                  [spreadsheetId |-> metadata.spreadsheetId,
                   spreadsheetTitle |-> metadata.title,
                   sheetId |-> result.value.replies[1].properties.sheetId,
                   sheetTitle |-> result.value.replies[1].properties.title])
      /\ UNCHANGED <<request, existingFile, metadata, fetchCalls>>

\* the create request settles
createMiniLedger(response) ==
  LET result == googleApiFetch(response)
      archiveSheet == IF result.threw THEN 0 ELSE Find(result.value.sheets, ARCHIVE_SHEET_NAME)
  IN  /\ pc = "create"
      /\ fetchResponses' = Append(fetchResponses, response)
      /\ pc' = "settled"
      /\ outcome' =
           IF result.threw THEN Rejected(result.message)
           ELSE IF archiveSheet = 0
             THEN Rejected("Created spreadsheet is missing Archive sheet.")
           ELSE Fulfilled(
                  [spreadsheetId |-> result.value.spreadsheetId,
                   spreadsheetTitle |-> result.value.title,
                   sheetId |-> result.value.sheets[archiveSheet].sheetId,
                   sheetTitle |-> result.value.sheets[archiveSheet].title])
      /\ UNCHANGED <<request, existingFile, metadata, fetchCalls>>


(***************************************************************************)
(* The export builders of the App module: trimming, delimited text, the    *)
(* OOXML worksheet and the ODF content                                     *)
(***************************************************************************)
hasContent(row) ==
  \E c \in 1..Len(row) : row[c].displayValue.kind # "null" \/ Truthy(row[c].formula)

\* mutant: the scan stops at the first blank row from the top
RECURSIVE trimAtFirstEmptyRow(_)
trimAtFirstEmptyRow(cells) ==
  IF cells = <<>> \/ ~hasContent(Head(cells))
    THEN <<>>
    ELSE <<Head(cells)>> \o trimAtFirstEmptyRow(Tail(cells))

RECURSIVE trimTrailingEmptyRows(_)
trimTrailingEmptyRows(cells) ==
  IF cells = <<>> THEN <<>>
  ELSE IF hasContent(cells[Len(cells)]) THEN cells
  ELSE trimTrailingEmptyRows(SubSeq(cells, 1, Len(cells) - 1))

\* mutant: the display value is taken before the formula
resolveSnapshotValueDisplayFirst(cell) ==
  IF cell.displayValue # NullValue THEN cell.displayValue
  ELSE IF Truthy(cell.formula) THEN StringValue(cell.formula.str) ELSE NullValue

resolveSnapshotValue(cell) ==
  IF Truthy(cell.formula) THEN StringValue(cell.formula.str) ELSE cell.displayValue

\* String(value) and `${value}` of a number or a boolean
ToText(value) ==
  IF value.kind = "boolean" THEN (IF value.bool THEN "true" ELSE "false")
  ELSE IF value.nf = "finite" THEN ToString(value.num)
  ELSE value.nf

Includes(s, ch) == \E i \in 1..Len(s) : s[i] = ch

RECURSIVE ReplaceAll(_, _, _)
ReplaceAll(s, ch, text) ==
  IF s = <<>> THEN <<>>
  ELSE (IF Head(s) = ch THEN <<text>> ELSE <<Head(s)>>) \o ReplaceAll(Tail(s), ch, text)

RECURSIVE Join(_, _)
Join(parts, separator) ==
  IF Len(parts) = 0 THEN ""
  ELSE IF Len(parts) = 1 THEN parts[1]
  ELSE parts[1] \o separator \o Join(Tail(parts), separator)

\* mutant: a text is quoted only for a double quote or a line break
encodeDelimitedCellQuotingLess(value, delimiter) ==
  IF value.kind = "null" THEN ""
  ELSE IF value.kind \in {"number", "boolean"} THEN ToText(value)
  ELSE
    LET needsQuoting ==
          \/ Includes(value.str, "\"")
          \/ Includes(value.str, "\n")
          \/ Includes(value.str, "\r")
    IN  IF ~needsQuoting
          THEN Str(value.str)
          ELSE "\"" \o Str(ReplaceAll(value.str, "\"", "\"\"")) \o "\""

encodeDelimitedCell(value, delimiter) ==
  IF value.kind = "null" THEN ""
  ELSE IF value.kind \in {"number", "boolean"} THEN ToText(value)
  ELSE
    LET needsQuoting ==
          \/ Includes(value.str, "\"")
          \/ Includes(value.str, "\n")
          \/ Includes(value.str, "\r")
          \/ Includes(value.str, delimiter)
          \/ Trim(value.str) # value.str
    IN  IF ~needsQuoting
          THEN Str(value.str)
          ELSE "\"" \o Str(ReplaceAll(value.str, "\"", "\"\"")) \o "\""

serializeDelimited(cells, delimiter) ==
  Join([r \in 1..Len(cells) |->
          Join([c \in 1..Len(cells[r]) |->
                  encodeDelimitedCell(resolveSnapshotValue(cells[r][c]), delimiter)],
               delimiter)],
       "\r\n")

Alphabet ==
  << "A", "B", "C", "D", "E", "F", "G", "H", "I", "J", "K", "L", "M",
     "N", "O", "P", "Q", "R", "S", "T", "U", "V", "W", "X", "Y", "Z" >>

RECURSIVE LettersOf(_)
LettersOf(n) ==
  IF n > 0 THEN LettersOf((n - 1) \div 26) \o Alphabet[((n - 1) % 26) + 1] ELSE ""

columnToLetters(index) == LettersOf(index + 1)

escapeXml(value) ==
  Str(ReplaceAll(ReplaceAll(ReplaceAll(ReplaceAll(ReplaceAll(value,
        "&", "&amp;"), "<", "&lt;"), ">", "&gt;"), "\"", "&quot;"), "'", "&#39;"))

shouldPreserveXmlSpace(value) ==
  \/ Trim(value) # value
  \/ \E i \in 1..Len(value) : value[i] \in {"\n", "\r", "\t"}
  \/ \E i \in 1..(Len(value) - 1) : value[i] = " " /\ value[i + 1] = " "

\* mutant: the formula is written with its leading = kept
buildXlsxCellXmlKeepingEquals(cell, rowIndex, columnIndex) ==
  LET cellRef == columnToLetters(columnIndex) \o ToString(rowIndex + 1)
      formula == Trim(cell.formula.str)
      value == cell.displayValue
      spaceAttr == IF shouldPreserveXmlSpace(value.str) THEN " xml:space=\"preserve\"" ELSE ""
  IN  IF Truthy(cell.formula)
        THEN (IF Len(formula) = 0
                THEN ""
                ELSE "<c r=\"" \o cellRef \o "\"><f>" \o escapeXml(formula) \o "</f></c>")
      ELSE IF value.kind = "null" THEN ""
      ELSE IF value.kind = "number"
        THEN (IF ~IsFinite(value)
                THEN ""
                ELSE "<c r=\"" \o cellRef \o "\"><v>" \o ToText(value) \o "</v></c>")
      ELSE IF value.kind = "boolean"
        THEN "<c r=\"" \o cellRef \o "\" t=\"b\"><v>"
               \o (IF value.bool THEN "1" ELSE "0") \o "</v></c>"
      ELSE "<c r=\"" \o cellRef \o "\" t=\"inlineStr\"><is><t" \o spaceAttr \o ">"
             \o escapeXml(value.str) \o "</t></is></c>"

buildXlsxCellXml(cell, rowIndex, columnIndex) ==
  LET cellRef == columnToLetters(columnIndex) \o ToString(rowIndex + 1)
      trimmed == Trim(cell.formula.str)
      formula == IF trimmed # <<>> /\ Head(trimmed) = "=" THEN Tail(trimmed) ELSE trimmed
      value == cell.displayValue
      spaceAttr == IF shouldPreserveXmlSpace(value.str) THEN " xml:space=\"preserve\"" ELSE ""
  IN  IF Truthy(cell.formula)
        THEN (IF Len(formula) = 0
                THEN ""
                ELSE "<c r=\"" \o cellRef \o "\"><f>" \o escapeXml(formula) \o "</f></c>")
      ELSE IF value.kind = "null" THEN ""
      ELSE IF value.kind = "number"
        THEN (IF ~IsFinite(value)
                THEN ""
                ELSE "<c r=\"" \o cellRef \o "\"><v>" \o ToText(value) \o "</v></c>")
      ELSE IF value.kind = "boolean"
        THEN "<c r=\"" \o cellRef \o "\" t=\"b\"><v>"
               \o (IF value.bool THEN "1" ELSE "0") \o "</v></c>"
      ELSE "<c r=\"" \o cellRef \o "\" t=\"inlineStr\"><is><t" \o spaceAttr \o ">"
             \o escapeXml(value.str) \o "</t></is></c>"

\* mutant: a row without cells is left out of the sheet
buildXlsxRowXmlOmittingEmpty(row, rowIndex) ==
  LET cellsXml ==
        Join([c \in 1..Len(row) |-> buildXlsxCellXml(row[c], rowIndex, c - 1)], "")
  IN  IF Len(cellsXml) = 0
        THEN ""
        ELSE "<row r=\"" \o ToString(rowIndex + 1) \o "\">" \o cellsXml \o "</row>"

buildXlsxRowXml(row, rowIndex) ==
  LET cellsXml ==
        Join([c \in 1..Len(row) |-> buildXlsxCellXml(row[c], rowIndex, c - 1)], "")
  IN  IF Len(cellsXml) = 0
        THEN "<row r=\"" \o ToString(rowIndex + 1) \o "\"/>"
        ELSE "<row r=\"" \o ToString(rowIndex + 1) \o "\">" \o cellsXml \o "</row>"

buildXlsxSheetXml(cells) ==
  LET rows == Join([r \in 1..Len(cells) |-> buildXlsxRowXml(cells[r], r - 1)], "")
  IN  "<?xml version=\"1.0\" encoding=\"UTF-8\" standalone=\"yes\"?>"
        \o "<worksheet xmlns=\"http://schemas.openxmlformats.org/spreadsheetml/2006/main\">"
        \o "<sheetData>" \o rows \o "</sheetData>"
        \o "</worksheet>"

buildOdsCellXml(cell) ==
  LET value == resolveSnapshotValue(cell)
  IN  IF value.kind = "null" THEN "<table:table-cell/>"
      ELSE IF value.kind = "number"
        THEN (IF ~IsFinite(value)
                THEN "<table:table-cell/>"
                ELSE "<table:table-cell office:value-type=\"float\" office:value=\""
                       \o ToText(value) \o "\"><text:p>" \o ToText(value)
                       \o "</text:p></table:table-cell>")
      ELSE IF value.kind = "boolean"
        THEN "<table:table-cell office:value-type=\"boolean\" office:boolean-value=\""
               \o ToText(value) \o "\"><text:p>"
               \o (IF value.bool THEN "TRUE" ELSE "FALSE")
               \o "</text:p></table:table-cell>"
      ELSE "<table:table-cell office:value-type=\"string\"><text:p>"
             \o escapeXml(value.str) \o "</text:p></table:table-cell>"

\* mutant: a row holds only the cells that have something to show
buildOdsRowXmlSparse(row) ==
  "<table:table-row>"
    \o Join([c \in 1..Len(row) |->
               IF buildOdsCellXml(row[c]) = "<table:table-cell/>"
                 THEN "" ELSE buildOdsCellXml(row[c])], "")
    \o "</table:table-row>"

buildOdsRowXml(row) ==
  "<table:table-row>"
    \o Join([c \in 1..Len(row) |-> buildOdsCellXml(row[c])], "")
    \o "</table:table-row>"

buildOdsContentXml(cells) ==
  "<?xml version=\"1.0\" encoding=\"UTF-8\"?>"
    \o "<office:document-content"
    \o " xmlns:office=\"urn:oasis:names:tc:opendocument:xmlns:office:1.0\""
    \o " xmlns:table=\"urn:oasis:names:tc:opendocument:xmlns:table:1.0\""
    \o " xmlns:text=\"urn:oasis:names:tc:opendocument:xmlns:text:1.0\""
    \o " office:version=\"1.2\">"
    \o "<office:body><office:spreadsheet><table:table table:name=\"Sheet1\">"
    \o Join([r \in 1..Len(cells) |-> buildOdsRowXml(cells[r])], "")
    \o "</table:table></office:spreadsheet></office:body>"
    \o "</office:document-content>"

\* the byte-order mark the text payloads start with, written out
BOM == "\\uFEFF"

\* the names of the entries buildXlsxWorkbookArchive hands to
\* createZipArchive, in their order; the last one holds buildXlsxSheetXml
buildXlsxWorkbookArchive ==
  << "[Content_Types].xml", "_rels/.rels", "xl/workbook.xml",
     "xl/_rels/workbook.xml.rels", "xl/styles.xml", "xl/worksheets/sheet1.xml" >>

\* the names of the entries buildOdsWorkbookArchive hands to
\* createZipArchive, in their order; the second one holds buildOdsContentXml
buildOdsWorkbookArchive ==
  << "mimetype", "content.xml", "styles.xml", "meta.xml", "settings.xml",
     "META-INF/manifest.xml" >>

\* the file buildExportFile makes of the cells: document is the text payload,
\* or the worksheet / content part of the workbook archive, whose entries
\* are named by parts
buildExportFile(cells, format) ==
  IF format = "csv"
    THEN [format |-> format, mimeType |-> "text/csv;charset=utf-8", parts |-> <<>>,
          document |-> BOM \o serializeDelimited(cells, ",")]
  ELSE IF format = "tsv"
    THEN [format |-> format, mimeType |-> "text/tab-separated-values;charset=utf-8",
          parts |-> <<>>,
          document |-> BOM \o serializeDelimited(cells, "\t")]
  ELSE IF format = "xlsx"
    THEN [format |-> format,
          mimeType |-> "application/vnd.openxmlformats-officedocument.spreadsheetml.sheet",
          parts |-> buildXlsxWorkbookArchive,
          document |-> buildXlsxSheetXml(cells)]
  ELSE [format |-> format, mimeType |-> "application/vnd.oasis.opendocument.spreadsheet",
        parts |-> buildOdsWorkbookArchive,
        document |-> buildOdsContentXml(cells)]

ExportFormats == {"csv", "tsv", "xlsx", "ods"}

VARIABLES
  hotCells,     \* what buildSnapshot reads off the grid
  snapshot,     \* the snapshot after trimTrailingEmptyRows
  exportFile,   \* the export file built of it
  exportPc      \* "grid" before the download, "exported" after

exportVars == <<hotCells, snapshot, exportFile, exportPc>>

FormulaOnlyCell == CellSnapshot(NullValue, Defined(<<"=", "A", "1">>))
EmptyFormulaCell == CellSnapshot(NullValue, Defined(<<>>))

\* formula cells with a display value, as a recalculated grid has them
FormulaCells ==
  { CellSnapshot(NumberValue(5), Defined(<<"=", "A", "1">>)),
    CellSnapshot(StringValue(<<"a">>), Defined(<<" ", "=", "A", "1">>)),
    CellSnapshot(BooleanValue(TRUE), Defined(<<"=">>)) }

\* a grid of texts that hold the separators of the delimited formats
TextGrid ==
  << << CellSnapshot(StringValue(<<"a", ",">>), Undefined),
        CellSnapshot(StringValue(<<"a", "\t", "a">>), Undefined) >>,
     << CellSnapshot(StringValue(<<"a", "\r", "\n", "a">>), Undefined),
        CellSnapshot(StringValue(<<"\"">>), Undefined) >> >>

\* buildSnapshot gives a rectangle: every row has columnCount cells
RectangularGrids ==
  UNION {SeqsUpTo([1..n -> GridCells], MaxSnapshotRows) : n \in 1..MaxCols}

HotGrids ==
  RectangularGrids
    \cup {<<(<<c>>)>> : c \in AllCells}
    \cup {<<(<<BlankCell, c>>)>> : c \in FormulaCells}
    \cup {TextGrid}
    \cup {<<(<<c>>), (<<d>>)>> : c \in {FormulaOnlyCell, EmptyFormulaCell},
                                 d \in {FormulaOnlyCell, EmptyFormulaCell, BlankCell}}

NoExportFile == [format |-> "", mimeType |-> "", parts |-> <<>>, document |-> ""]

ExportIdle ==
  /\ hotCells = <<>>
  /\ snapshot = <<>>
  /\ exportFile = NoExportFile
  /\ exportPc = "idle"

ExportInit ==
  /\ hotCells \in HotGrids
  /\ snapshot = <<>>
  /\ exportFile = NoExportFile
  /\ exportPc = "grid"

\* handleDownload: the snapshot is trimmed and the export file built of it
handleDownload(format) ==
  /\ exportPc = "grid"
  /\ snapshot' = trimTrailingEmptyRows(hotCells)
  /\ exportFile' = buildExportFile(snapshot', format)
  /\ exportPc' = "exported"
  /\ UNCHANGED hotCells


(***************************************************************************)
(* The App component: sign-in, sign-out and save                           *)
(* React state is updated in one step between two awaits of a handler (the *)
(* root is made with createRoot, which batches the setters of one task),   *)
(* and a click is delivered to the handlers of the latest render.          *)
(***************************************************************************)
VARIABLES
  accessToken,     \* useState<string | null>: "" is null
  ledgerTarget,    \* useState<LedgerTarget | null>
  isAuthReady,
  isSigningIn,
  isSaving,
  statusMessage,
  errorMessage,    \* useState<string | null>: "" is null
  label,
  hotReady,        \* whether hotRef holds the grid instance
  clientId,        \* VITE_GOOGLE_CLIENT_ID, "" when missing
  tasks,           \* the handler calls suspended at an await
  appendsStarted   \* how many appendLedgerBlock calls were started

appVars ==
  <<accessToken, ledgerTarget, isAuthReady, isSigningIn, isSaving, statusMessage,
    errorMessage, label, hotReady, clientId, tasks, appendsStarted>>

NoTarget == [spreadsheetId |-> "", spreadsheetTitle |-> "", sheetId |-> 0, sheetTitle |-> ""]
Tokens == {"token-1", "token-2"}
TokenResults ==
  {[state |-> "fulfilled", message |-> "", value |-> t] : t \in Tokens}
    \cup {[state |-> "rejected", value |-> "",
           message |-> "OAuth sign-in window was closed before completion."]}
\* how findOrCreateMiniLedger settles (its requests are the subject of Spec)
LedgerResults ==
  {[state |-> "fulfilled", message |-> "",
    value |-> [spreadsheetId |-> i, spreadsheetTitle |-> LEDGER_FILE_NAME,
               sheetId |-> 9, sheetTitle |-> ARCHIVE_SHEET_NAME]] : i \in FileIds}
    \cup {[state |-> "rejected", message |-> "Permission denied.", value |-> NoTarget]}

activeColumnCount == MaxCols
BlankGrid == [r \in 1..AppGridRows |-> [c \in 1..activeColumnCount |-> BlankCell]]
AppGrids ==
  {BlankGrid, [BlankGrid EXCEPT ![1][1] = CellSnapshot(NumberValue(5), Undefined)]}
\* the text of a string, one character per element
Chars(text) == [i \in 1..Len(text) |-> SubSeq(text, i, i)]

\* the clock's text is written <now>
buildDefaultLabel(preset) ==
  LET prefix == IF preset = "blank" THEN "Blank Sheet"
                ELSE IF preset = "journal_entry" THEN "Journal Entry"
                ELSE IF preset = "t_account" THEN "T-Account"
                ELSE "Ledger Entry"
  IN Chars(prefix \o " - " \o "<now>")
AppLabels == {buildDefaultLabel("blank"), <<>>, <<"a">>}

Task(kind, at, token, rows) == [kind |-> kind, at |-> at, token |-> token, rows |-> rows]
Remove(seq, i) == SubSeq(seq, 1, i - 1) \o SubSeq(seq, i + 1, Len(seq))
CanStart == Len(tasks) < MaxTasks

AppIdle ==
  /\ accessToken = ""
  /\ ledgerTarget = NoTarget
  /\ isAuthReady = FALSE
  /\ isSigningIn = FALSE
  /\ isSaving = FALSE
  /\ statusMessage = "Sign in to connect your Beanfolio archive."
  /\ errorMessage = ""
  /\ label = buildDefaultLabel("blank")
  /\ hotReady = FALSE
  /\ clientId = ""
  /\ tasks = <<>>
  /\ appendsStarted = 0

AppInit ==
  /\ accessToken = ""
  /\ ledgerTarget = NoTarget
  /\ isAuthReady = FALSE
  /\ isSigningIn = FALSE
  /\ isSaving = FALSE
  /\ statusMessage = "Sign in to connect your Beanfolio archive."
  /\ errorMessage = ""
  /\ label = buildDefaultLabel("blank")
  /\ hotReady = FALSE
  /\ clientId \in {"", "client-id"}
  /\ tasks = <<Task("loadScript", "load", "", <<>>)>>
  /\ appendsStarted = 0

\* the mount effect: loadGoogleIdentityScript settles
loadGoogleIdentityScriptSettled(i, loaded) ==
  /\ i \in 1..Len(tasks) /\ tasks[i].kind = "loadScript"
  /\ tasks' = Remove(tasks, i)
  /\ IF loaded
       THEN isAuthReady' = TRUE /\ UNCHANGED <<errorMessage, statusMessage>>
       ELSE /\ errorMessage' = "Failed to load Google script."
            /\ statusMessage' = "Google sign-in failed to initialize."
            /\ UNCHANGED isAuthReady
  /\ UNCHANGED <<accessToken, ledgerTarget, isSigningIn, isSaving, label, hotReady,
                 clientId, appendsStarted>>

\* the grid component mounts and hotRef holds its instance
mountGrid ==
  /\ ~hotReady
  /\ hotReady' = TRUE
  /\ UNCHANGED <<accessToken, ledgerTarget, isAuthReady, isSigningIn, isSaving,
                 statusMessage, errorMessage, label, clientId, tasks, appendsStarted>>

setLabel(text) ==
  /\ label # text
  /\ label' = text
  /\ UNCHANGED <<accessToken, ledgerTarget, isAuthReady, isSigningIn, isSaving,
                 statusMessage, errorMessage, hotReady, clientId, tasks, appendsStarted>>

\* mutant: the button stays enabled while a save is in flight
saveMainDisabledIgnoringSaving ==
  isSigningIn \/ ((accessToken = "" \/ ledgerTarget = NoTarget) /\ ~isAuthReady)

\* the disabled attribute of the sidebar-save-main button
saveMainDisabled ==
  isSaving \/ isSigningIn \/ ((accessToken = "" \/ ledgerTarget = NoTarget) /\ ~isAuthReady)

\* handleSignIn up to its first await
handleSignIn ==
  IF clientId = ""
    THEN /\ errorMessage' = "Missing VITE_GOOGLE_CLIENT_ID in environment configuration."
         /\ UNCHANGED <<isSigningIn, tasks>>
    ELSE /\ errorMessage' = ""
         /\ isSigningIn' = TRUE
         /\ tasks' = Append(tasks, Task("signIn", "token", "", <<>>))

\* handleSave up to its await
handleSave(cells) ==
  IF accessToken = "" \/ ledgerTarget = NoTarget
    THEN /\ errorMessage' = "Sign in first to save into Google Sheets."
         /\ UNCHANGED <<isSaving, tasks, appendsStarted>>
  ELSE IF ~hotReady
    THEN /\ errorMessage' = "Grid is not ready yet."
         /\ UNCHANGED <<isSaving, tasks, appendsStarted>>
  ELSE
    LET rows == buildAppendRows(label, trimTrailingEmptyRows(cells), activeColumnCount)
    IN  /\ errorMessage' = ""
        /\ isSaving' = TRUE
        /\ appendsStarted' = appendsStarted + 1
        /\ tasks' = Append(tasks, Task("save", "append", accessToken, rows))

\* a click on the sidebar-save-main button
handleSaveMainClick ==
  /\ ~saveMainDisabled
  /\ CanStart /\ appendsStarted < MaxAppends
  /\ IF accessToken = "" \/ ledgerTarget = NoTarget
       THEN handleSignIn /\ UNCHANGED <<isSaving, appendsStarted>>
       ELSE handleSave(hotCells) /\ UNCHANGED isSigningIn
  /\ UNCHANGED <<accessToken, ledgerTarget, isAuthReady, statusMessage, label,
                 hotReady, clientId>>

\* handleSignIn: requestGoogleAccessToken settles
handleSignInTokenSettled(i, result) ==
  /\ i \in 1..Len(tasks) /\ tasks[i].kind = "signIn" /\ tasks[i].at = "token"
  /\ IF result.state = "fulfilled"
       THEN /\ tasks' = [tasks EXCEPT ![i] = Task("signIn", "ledger", result.value, <<>>)]
            /\ UNCHANGED <<errorMessage, statusMessage, isSigningIn>>
       ELSE /\ tasks' = Remove(tasks, i)
            /\ errorMessage' = result.message
            /\ statusMessage' = "Unable to complete sign-in."
            /\ isSigningIn' = FALSE
  /\ UNCHANGED <<accessToken, ledgerTarget, isAuthReady, isSaving, label, hotReady,
                 clientId, appendsStarted>>

\* handleSignIn: findOrCreateMiniLedger settles
handleSignInLedgerSettled(i, result) ==
  /\ i \in 1..Len(tasks) /\ tasks[i].kind = "signIn" /\ tasks[i].at = "ledger"
  /\ tasks' = Remove(tasks, i)
  /\ IF result.state = "fulfilled"
       THEN /\ accessToken' = tasks[i].token
            /\ ledgerTarget' = result.value
            /\ statusMessage' = "Connected to " \o result.value.spreadsheetTitle
                                  \o " / " \o result.value.sheetTitle \o "."
            /\ UNCHANGED errorMessage
       ELSE /\ errorMessage' = result.message
            /\ statusMessage' = "Unable to complete sign-in."
            /\ UNCHANGED <<accessToken, ledgerTarget>>
  /\ isSigningIn' = FALSE
  /\ UNCHANGED <<isAuthReady, isSaving, label, hotReady, clientId, appendsStarted>>

\* mutant: without the finally, a failed save leaves the flag set
handleSaveSettledWithoutFinally(i, response) ==
  LET result == googleApiFetch(response)
  IN  /\ i \in 1..Len(tasks) /\ tasks[i].kind = "save"
      /\ tasks' = Remove(tasks, i)
      /\ IF result.threw
           THEN /\ errorMessage' = result.message
                /\ statusMessage' = "Save failed."
                /\ UNCHANGED isSaving
           ELSE /\ statusMessage' = "Saved block at <now>."
                /\ isSaving' = FALSE
                /\ UNCHANGED errorMessage
      /\ UNCHANGED <<accessToken, ledgerTarget, isAuthReady, isSigningIn, label,
                     hotReady, clientId, appendsStarted>>
\* handleSave: appendLedgerBlock settles with the response to its request
handleSaveSettled(i, response) ==
  LET result == googleApiFetch(response)
  IN  /\ i \in 1..Len(tasks) /\ tasks[i].kind = "save"
      /\ tasks' = Remove(tasks, i)
      /\ IF result.threw
           THEN /\ errorMessage' = result.message
                /\ statusMessage' = "Save failed."
           ELSE /\ statusMessage' = "Saved block at <now>."
                /\ UNCHANGED errorMessage
      /\ isSaving' = FALSE
      /\ UNCHANGED <<accessToken, ledgerTarget, isAuthReady, isSigningIn, label,
                     hotReady, clientId, appendsStarted>>

\* a click on Disconnect Google: handleSignOut up to the await of the revoke
handleSignOut ==
  /\ accessToken # ""
  /\ CanStart
  /\ tasks' = Append(tasks, Task("signOut", "revoke", accessToken, <<>>))
  /\ UNCHANGED <<accessToken, ledgerTarget, isAuthReady, isSigningIn, isSaving,
                 statusMessage, errorMessage, label, hotReady, clientId, appendsStarted>>

\* mutant: sign-out forgets the token and keeps the ledger
handleSignOutSettledKeepingLedger(i) ==
  /\ i \in 1..Len(tasks) /\ tasks[i].kind = "signOut"
  /\ tasks' = Remove(tasks, i)
  /\ accessToken' = ""
  /\ statusMessage' = "Signed out."
  /\ UNCHANGED <<ledgerTarget, isAuthReady, isSigningIn, isSaving, errorMessage, label,
                 hotReady, clientId, appendsStarted>>
\* handleSignOut: revokeGoogleToken settles
handleSignOutSettled(i) ==
  /\ i \in 1..Len(tasks) /\ tasks[i].kind = "signOut"
  /\ tasks' = Remove(tasks, i)
  /\ accessToken' = ""
  /\ ledgerTarget' = NoTarget
  /\ statusMessage' = "Signed out."
  /\ UNCHANGED <<isAuthReady, isSigningIn, isSaving, errorMessage, label, hotReady,
                 clientId, appendsStarted>>

\* the user edits the grid
editGrid(cells) ==
  /\ hotReady
  /\ hotCells # cells
  /\ hotCells' = cells
  /\ UNCHANGED <<snapshot, exportFile, exportPc>>


(***************************************************************************)
(* The ZIP archive writer. Bytes are numbers 0..255, an archive is a        *)
(* sequence of bytes, a name is the sequence of the code points of its      *)
(* characters, and a 32-bit checksum is the sequence of its 32 bits, lowest *)
(* bit first.                                                               *)
(***************************************************************************)
\* TextEncoder.encode of the code points (of the basic plane)
RECURSIVE encodeUtf8(_)
encodeUtf8(value) ==
  IF value = <<>> THEN <<>>
  ELSE LET cp == Head(value)
           bytes == IF cp < 128 THEN <<cp>>
                    ELSE IF cp < 2048 THEN <<192 + (cp \div 64), 128 + (cp % 64)>>
                    ELSE <<224 + (cp \div 4096), 128 + ((cp \div 64) % 64), 128 + (cp % 64)>>
       IN  bytes \o encodeUtf8(Tail(value))

\* DataView.setUint16 and setUint32, little-endian
Uint16(n) == <<n % 256, (n \div 256) % 256>>
Uint32(n) == <<n % 256, (n \div 256) % 256, (n \div 65536) % 256, (n \div 16777216) % 256>>

\* the bits of a byte, lowest first, and back
BitsOfByte(b) == [i \in 1..8 |-> (b \div (2 ^ (i - 1))) % 2]
ByteOfBits(bits, from) ==
  bits[from] + 2 * bits[from + 1] + 4 * bits[from + 2] + 8 * bits[from + 3]
    + 16 * bits[from + 4] + 32 * bits[from + 5] + 64 * bits[from + 6]
    + 128 * bits[from + 7]
\* setUint32 of a checksum
Uint32OfBits(bits) ==
  <<ByteOfBits(bits, 1), ByteOfBits(bits, 9), ByteOfBits(bits, 17), ByteOfBits(bits, 25)>>
Xor(a, b) == [i \in 1..32 |-> (a[i] + b[i]) % 2]
ShiftRight(a, n) == [i \in 1..32 |-> IF i + n <= 32 THEN a[i + n] ELSE 0]
Word(b) == [i \in 1..32 |-> IF i <= 8 THEN BitsOfByte(b)[i] ELSE 0]
\* 0xedb88320, lowest bit first
Polynomial ==
  << 0,0,0,0,0,1,0,0, 1,1,0,0,0,0,0,1, 0,0,0,1,1,1,0,1, 1,0,1,1,0,1,1,1 >>
AllOnes == [i \in 1..32 |-> 1]

\* one entry of the table buildCrc32Table makes
RECURSIVE Crc32TableValue(_, _)
Crc32TableValue(value, bit) ==
  IF bit = 8 THEN value
  ELSE Crc32TableValue(IF value[1] = 1 THEN Xor(Polynomial, ShiftRight(value, 1))
                                       ELSE ShiftRight(value, 1),
                       bit + 1)
getCrc32Table(index) == Crc32TableValue(Word(index), 0)

RECURSIVE Crc32Loop(_, _)
Crc32Loop(data, checksum) ==
  IF data = <<>> THEN checksum
  ELSE LET tableIndex == ByteOfBits(Xor(checksum, Word(Head(data))), 1)
       IN  Crc32Loop(Tail(data), Xor(ShiftRight(checksum, 8), getCrc32Table(tableIndex)))
crc32(data) == Xor(Crc32Loop(data, AllOnes), AllOnes)

\* a Date, by the getters the writer reads
Date(year, month, date, hours, minutes, seconds) ==
  [year |-> year, month |-> month, date |-> date, hours |-> hours,
   minutes |-> minutes, seconds |-> seconds]
toDosTime(date) ==
  ((date.hours % 32) * 2048) + ((date.minutes % 64) * 32) + ((date.seconds \div 2) % 32)
toDosDate(date) ==
  LET year == Max(date.year, 1980)
  IN  (((year - 1980) % 128) * 512) + (((date.month + 1) % 16) * 32) + (date.date % 32)

buildZipLocalFileHeader(fileNameLength, crc, size, dosTime, dosDate) ==
  Uint32(67324752) \o Uint16(20) \o Uint16(0) \o Uint16(0)
    \o Uint16(dosTime) \o Uint16(dosDate) \o Uint32OfBits(crc)
    \o Uint32(size) \o Uint32(size) \o Uint16(fileNameLength) \o Uint16(0)

\* mutant: every record points at the start of the archive
buildZipCentralDirectoryHeaderAtStart(fileNameLength, crc, size, dosTime, dosDate, localOffset) ==
  Uint32(33639248) \o Uint16(20) \o Uint16(20) \o Uint16(0) \o Uint16(0)
    \o Uint16(dosTime) \o Uint16(dosDate) \o Uint32OfBits(crc)
    \o Uint32(size) \o Uint32(size) \o Uint16(fileNameLength)
    \o Uint16(0) \o Uint16(0) \o Uint16(0) \o Uint16(0) \o Uint32(0)
    \o Uint32(0)
buildZipCentralDirectoryHeader(fileNameLength, crc, size, dosTime, dosDate, localOffset) ==
  Uint32(33639248) \o Uint16(20) \o Uint16(20) \o Uint16(0) \o Uint16(0)
    \o Uint16(dosTime) \o Uint16(dosDate) \o Uint32OfBits(crc)
    \o Uint32(size) \o Uint32(size) \o Uint16(fileNameLength)
    \o Uint16(0) \o Uint16(0) \o Uint16(0) \o Uint16(0) \o Uint32(0)
    \o Uint32(localOffset)

\* mutant: the size and the offset of the central directory change places
buildZipEndOfCentralDirectoryRecordSwapped(entryCount, centralDirectorySize, centralDirectoryOffset) ==
  Uint32(101010256) \o Uint16(0) \o Uint16(0) \o Uint16(entryCount)
    \o Uint16(entryCount) \o Uint32(centralDirectoryOffset)
    \o Uint32(centralDirectorySize) \o Uint16(0)

buildZipEndOfCentralDirectoryRecord(entryCount, centralDirectorySize, centralDirectoryOffset) ==
  Uint32(101010256) \o Uint16(0) \o Uint16(0) \o Uint16(entryCount)
    \o Uint16(entryCount) \o Uint32(centralDirectorySize)
    \o Uint32(centralDirectoryOffset) \o Uint16(0)

ZipEntry(name, data) == [name |-> name, data |-> data]

\* the first loop of createZipArchive over entries[i..]: the local chunks
\* and the central-directory entries, offset being the bytes written so far
RECURSIVE LocalChunks(_, _, _, _, _)
LocalChunks(entries, i, offset, dosTime, dosDate) ==
  IF i > Len(entries) THEN [bytes |-> <<>>, directory |-> <<>>, offset |-> offset]
  ELSE LET entry == entries[i]
           nameBytes == encodeUtf8(entry.name)
           size == Len(entry.data)
           crc == crc32(entry.data)
           localHeader == buildZipLocalFileHeader(Len(nameBytes), crc, size, dosTime, dosDate)
           rest == LocalChunks(entries, i + 1,
                               offset + Len(localHeader) + Len(nameBytes) + size,
                               dosTime, dosDate)
       IN  [bytes |-> localHeader \o nameBytes \o entry.data \o rest.bytes,
            directory |-> <<[nameBytes |-> nameBytes, crc32 |-> crc, size |-> size,
                             localOffset |-> offset]>> \o rest.directory,
            offset |-> rest.offset]

\* the second loop: the central chunks of directory[i..]
RECURSIVE CentralChunks(_, _, _, _)
CentralChunks(directory, i, dosTime, dosDate) ==
  IF i > Len(directory) THEN <<>>
  ELSE LET entry == directory[i]
       IN  buildZipCentralDirectoryHeader(Len(entry.nameBytes), entry.crc32, entry.size,
                                          dosTime, dosDate, entry.localOffset)
             \o entry.nameBytes
             \o CentralChunks(directory, i + 1, dosTime, dosDate)

\* createZipArchive, timestamp being what new Date() returns when it runs
createZipArchive(entries, timestamp) ==
  LET dosTime == toDosTime(timestamp)
      dosDate == toDosDate(timestamp)
      local == LocalChunks(entries, 1, 0, dosTime, dosDate)
      central == CentralChunks(local.directory, 1, dosTime, dosDate)
      endOfCentralDirectory ==
        buildZipEndOfCentralDirectoryRecord(Len(entries), Len(central), local.offset)
  IN  local.bytes \o central \o endOfCentralDirectory

VARIABLES
  zipEntries,   \* the entries an archive is built of
  clock,        \* the time new Date() returns
  archive,      \* the bytes createZipArchive returned
  rebuilt,      \* the bytes a second call with the same entries returned
  zipPc

zipVars == <<zipEntries, clock, archive, rebuilt, zipPc>>

\* entry names: "a", "é", "a/b"; entry data: none, one byte, two bytes
ZipNames == {<<97>>, <<233>>, <<97, 47, 98>>}
ZipData == {<<>>, <<0>>, <<80, 255>>}
ZipEntries == {ZipEntry(n, d) : n \in ZipNames, d \in ZipData}
\* the times of the builds, in their order
Clocks ==
  << Date(1979, 11, 31, 23, 59, 58), Date(2026, 0, 15, 10, 30, 0),
     Date(2026, 0, 15, 10, 30, 1), Date(2026, 0, 15, 10, 30, 2) >>

ZipIdle ==
  /\ zipEntries = <<>>
  /\ clock = 1
  /\ archive = <<>>
  /\ rebuilt = <<>>
  /\ zipPc = "idle"

ZipInit ==
  /\ zipEntries \in SeqsUpTo(ZipEntries, MaxEntries)
  /\ clock \in 1..Len(Clocks)
  /\ archive = <<>>
  /\ rebuilt = <<>>
  /\ zipPc = "entries"

\* time passes
Tick ==
  /\ zipPc # "idle"
  /\ clock < Len(Clocks)
  /\ clock' = clock + 1
  /\ UNCHANGED <<zipEntries, archive, rebuilt, zipPc>>

\* a workbook archive is built of the entries
BuildArchive ==
  /\ zipPc = "entries"
  /\ archive' = createZipArchive(zipEntries, Clocks[clock])
  /\ zipPc' = "built"
  /\ UNCHANGED <<zipEntries, clock, rebuilt>>

\* the archive is built of the same entries once more
BuildArchiveAgain ==
  /\ zipPc = "built"
  /\ rebuilt' = createZipArchive(zipEntries, Clocks[clock])
  /\ zipPc' = "rebuilt"
  /\ UNCHANGED <<zipEntries, clock, archive>>

(***************************************************************************)
(* lib/grid.ts and buildSnapshot: from the values of the grid component to *)
(* the cell of a snapshot. A value of type unknown is a record like a      *)
(* GridCellValue whose kind may also be "undefined" or "object"; str of an *)
(* object is the text String(value) gives.                                 *)
(***************************************************************************)
UndefinedValue == [kind |-> "undefined", num |-> 0, nf |-> "finite", bool |-> FALSE, str |-> <<>>]
ObjectValue(text) == [kind |-> "object", num |-> 0, nf |-> "finite", bool |-> FALSE, str |-> text]

\* mutant: a text is returned trimmed
normalizeDisplayValueTrimming(value) ==
  IF value.kind \in {"null", "undefined"} THEN NullValue
  ELSE IF value.kind \in {"number", "boolean"} THEN value
  ELSE IF value.kind = "string"
    THEN (IF Len(Trim(value.str)) = 0 THEN NullValue ELSE StringValue(Trim(value.str)))
  ELSE StringValue(value.str)

normalizeDisplayValue(value) ==
  IF value.kind \in {"null", "undefined"} THEN NullValue
  ELSE IF value.kind \in {"number", "boolean"} THEN value
  ELSE IF value.kind = "string"
    THEN (IF Len(Trim(value.str)) = 0 THEN NullValue ELSE value)
  ELSE StringValue(value.str)

isFormula(rawValue) ==
  /\ rawValue.kind = "string"
  /\ Trim(rawValue.str) # <<>>
  /\ Head(Trim(rawValue.str)) = "="

\* the callback of buildSnapshot for one cell
buildSnapshotCell(sourceValue, displayValue) ==
  CellSnapshot(normalizeDisplayValue(displayValue),
               IF isFormula(sourceValue) THEN Defined(sourceValue.str) ELSE Undefined)

VARIABLES
  sourceValue,    \* hot.getSourceDataAtCell(row, column)
  displayValue,   \* hot.getDataAtCell(row, column)
  cellSnapshot,   \* the cell buildSnapshot makes of them
  snapshotPc

snapshotVars == <<sourceValue, displayValue, cellSnapshot, snapshotPc>>

ObjectTexts ==
  { <<>>, <<"[", "o", "b", "j", "e", "c", "t", " ", "O", "b", "j", "e", "c", "t", "]">> }
UnknownValues ==
  DisplayValues \cup {UndefinedValue} \cup {ObjectValue(t) : t \in ObjectTexts}
SourceValues ==
  {NullValue, NumberValue(5)}
    \cup {StringValue(s) : s \in {<<>>, <<"a">>, <<"=">>, <<"=", "A", "1">>,
                                  <<" ", "=", "A", "1">>}}

SnapshotIdle ==
  /\ sourceValue = NullValue
  /\ displayValue = NullValue
  /\ cellSnapshot = BlankCell
  /\ snapshotPc = "idle"

SnapshotInit ==
  /\ sourceValue \in SourceValues
  /\ displayValue \in UnknownValues
  /\ cellSnapshot = BlankCell
  /\ snapshotPc = "grid"

buildSnapshot ==
  /\ snapshotPc = "grid"
  /\ cellSnapshot' = buildSnapshotCell(sourceValue, displayValue)
  /\ snapshotPc' = "built"
  /\ UNCHANGED <<sourceValue, displayValue>>

\* ---------------------------------------------------------------------------
\* Presets and the cell style store (presets.ts, lib/cellFormat.ts, App)
\* ---------------------------------------------------------------------------

PresetTypes == {"blank", "journal_entry", "t_account"}

\* a GridCellValue[][] of GRID_ROWS x GRID_COLUMNS, written as the function
\* from <<row, column>> to the value of each cell that is not null
GridOf(cells) ==
  [k \in {<<cell.row, cell.col>> : cell \in cells} |->
     (CHOOSE cell \in cells : <<cell.row, cell.col>> = k).value]
GridCell(row, col, value) == [row |-> row, col |-> col, value |-> value]

createBlankGrid == GridOf({})

isBlank(value) ==
  value.kind = "null" \/ (value.kind = "string" /\ Len(Trim(value.str)) = 0)

hasNonEmptyCells(matrix) == \E k \in DOMAIN matrix : ~isBlank(matrix[k])

sourceHasNonEmptyCells(source) ==
  \E k \in DOMAIN source : normalizeDisplayValue(source[k]) # NullValue

JOURNAL_TEMPLATE_HEADERS == <<"#", "Account Name", "Debit", "Credit">>
T_ACCOUNT_BLOCKS ==
  <<[titleRow |-> 2, topRow |-> 3, entryStartRow |-> 4, entryEndRow |-> 10,
     totalRow |-> 11, title |-> "Account 1"],
    [titleRow |-> 13, topRow |-> 14, entryStartRow |-> 15, entryEndRow |-> 21,
     totalRow |-> 22, title |-> "Account 2"]>>
T_ACCOUNT_DEBIT_COL == 1
T_ACCOUNT_CREDIT_COL == 2

toA1Col(columnIndex) == SubSeq("ABCDEFGHIJKL", columnIndex + 1, columnIndex + 1)

\* the cells one T-account block writes
TAccountBlockCells(block) ==
  LET debitRange ==
        toA1Col(T_ACCOUNT_DEBIT_COL) \o ToString(block.entryStartRow + 1) \o ":"
          \o toA1Col(T_ACCOUNT_DEBIT_COL) \o ToString(block.entryEndRow + 1)
      creditRange ==
        toA1Col(T_ACCOUNT_CREDIT_COL) \o ToString(block.entryStartRow + 1) \o ":"
          \o toA1Col(T_ACCOUNT_CREDIT_COL) \o ToString(block.entryEndRow + 1)
      netExpression == "SUM(" \o debitRange \o ")-SUM(" \o creditRange \o ")"
      hasEntriesExpression ==
        "COUNTA(" \o debitRange \o ")+COUNTA(" \o creditRange \o ")>0"
  IN {GridCell(block.titleRow, T_ACCOUNT_DEBIT_COL, StringValue(Chars(block.title))),
      GridCell(block.topRow, T_ACCOUNT_DEBIT_COL, StringValue(Chars("Dr"))),
      GridCell(block.topRow, T_ACCOUNT_CREDIT_COL, StringValue(Chars("Cr"))),
      GridCell(block.totalRow, T_ACCOUNT_DEBIT_COL,
               StringValue(Chars("=IF(" \o hasEntriesExpression \o ",IF(" \o netExpression
                                   \o ">=0," \o netExpression \o ",\"\"),\"\")"))),
      GridCell(block.totalRow, T_ACCOUNT_CREDIT_COL,
               StringValue(Chars("=IF(" \o hasEntriesExpression \o ",IF(" \o netExpression
                                   \o "<0,ABS(" \o netExpression \o "),\"\"),\"\")")))}

buildPresetGrid(preset) ==
  IF preset = "journal_entry"
    THEN GridOf({GridCell(0, columnIndex - 1, StringValue(Chars(JOURNAL_TEMPLATE_HEADERS[columnIndex])))
                   : columnIndex \in DOMAIN JOURNAL_TEMPLATE_HEADERS}
                \cup {GridCell(1, 0, NumberValue(1))})
  ELSE IF preset = "t_account"
    THEN GridOf(UNION {TAccountBlockCells(T_ACCOUNT_BLOCKS[i]) : i \in DOMAIN T_ACCOUNT_BLOCKS})
  ELSE createBlankGrid

\* a CellStyle is the function from the properties it holds to their values,
\* each value written as its source text ("true", "undefined", "#ef4444", "0")
StyleProps ==
  {"bold", "italic", "underline", "fillColor", "textColor", "commaOff", "percent",
   "borderTop", "borderRight", "borderBottom", "borderLeft",
   "borderTopStyle", "borderRightStyle", "borderBottomStyle", "borderLeftStyle"}
Falsy(value) == value \in {"undefined", "false", "0", ""}
Patch(prop, value) == [p \in {prop} |-> value]
EmptyStore == [k \in {} |-> Patch("bold", "undefined")]

key(row, col) == ToString(row) \o "," \o ToString(col)

getCellStyle(map, row, col) ==
  IF key(row, col) \in DOMAIN map THEN map[key(row, col)] ELSE EmptyStore

\* setCellStyle without the test for an empty merge
setCellStyleKeepingEmpty(map, row, col, patch) ==
  LET k == key(row, col)
      existing == IF k \in DOMAIN map THEN map[k] ELSE EmptyStore
      merged == [p \in DOMAIN existing \cup DOMAIN patch |->
                   IF p \in DOMAIN patch THEN patch[p] ELSE existing[p]]
  IN [j \in DOMAIN map \cup {k} |-> IF j = k THEN merged ELSE map[j]]
\* the store after setCellStyle(row, col, patch)
setCellStyle(map, row, col, patch) ==
  LET k == key(row, col)
      existing == IF k \in DOMAIN map THEN map[k] ELSE EmptyStore
      merged == [p \in DOMAIN existing \cup DOMAIN patch |->
                   IF p \in DOMAIN patch THEN patch[p] ELSE existing[p]]
      isEmpty == \A p \in StyleProps : p \notin DOMAIN merged \/ Falsy(merged[p])
  IN IF isEmpty
       THEN [j \in DOMAIN map \ {k} |-> map[j]]
       ELSE [j \in DOMAIN map \cup {k} |-> IF j = k THEN merged ELSE map[j]]

\* mutant: the styles are kept
clearAllStylesKeeping(map) == map
clearAllStyles(map) == EmptyStore

\* the cells of one selected range [r1, c1, r2, c2], rows outermost
RangeCells(range) ==
  LET width == range[4] - range[2] + 1
      height == range[3] - range[1] + 1
  IN [i \in 1..(width * height) |->
        <<range[1] + ((i - 1) \div width), range[2] + ((i - 1) % width)>>]

RECURSIVE SelectedCells(_)
SelectedCells(ranges) ==
  IF ranges = <<>> THEN <<>>
  ELSE RangeCells(Head(ranges)) \o SelectedCells(Tail(ranges))

\* forEachSelectedCell((r, c) => setCellStyle(r, c, patch))
RECURSIVE forEachSelectedCell(_, _, _)
forEachSelectedCell(map, cells, patch) ==
  IF cells = <<>> THEN map
  ELSE forEachSelectedCell(setCellStyle(map, Head(cells)[1], Head(cells)[2], patch),
                           Tail(cells), patch)

VARIABLES
  selectedPreset,  \* useState<PresetType>
  gridData,        \* useState: the data handed to the grid when it mounts
  gridEpoch,
  store,           \* the module-level Map of lib/cellFormat.ts
  hotSource,       \* hot.getSourceDataArray()
  presetCall       \* the last call of handlePresetSelect, as it found the app

presetVars == <<selectedPreset, gridData, gridEpoch, store, hotSource, presetCall>>

NoPresetCall ==
  [calls |-> 0, nextPreset |-> "blank", hasCurrentData |-> FALSE, confirmed |-> FALSE,
   styled |-> FALSE]

Selections == {<<>>, <<(<<0, 0, 0, 0>>)>>, <<(<<0, 1, 0, 1>>), (<<0, 0, 0, 1>>)>>}
ToggledProps == {"bold"}
Colors == {"#ef4444"}
EditedCells == {<<0, 0>>}
EditedValues == {NullValue, StringValue(<<" ">>), StringValue(<<"x">>)}

PresetIdle ==
  /\ selectedPreset = "blank"
  /\ gridData = buildPresetGrid("blank")
  /\ gridEpoch = 0
  /\ store = EmptyStore
  /\ hotSource = buildPresetGrid("blank")
  /\ presetCall = NoPresetCall

\* what the steps below leave alone in the rest of the App component
presetAppFrame ==
  <<accessToken, ledgerTarget, isAuthReady, isSigningIn, isSaving, statusMessage,
    errorMessage, clientId, tasks, appendsStarted>>

toggleStyleProp(prop, ranges) ==
  LET cells == SelectedCells(ranges)
      allSet == \A i \in DOMAIN cells :
                  LET style == getCellStyle(store, cells[i][1], cells[i][2])
                  IN prop \in DOMAIN style /\ ~Falsy(style[prop])
  IN /\ store' = IF Len(ranges) = 0 THEN store
                 ELSE forEachSelectedCell(store, cells,
                                          Patch(prop, IF ~allSet THEN "true" ELSE "undefined"))
     /\ UNCHANGED <<selectedPreset, gridData, gridEpoch, hotSource, presetCall>>
     /\ UNCHANGED <<presetAppFrame, label, hotReady>>

applyColor(target, color, ranges) ==
  /\ store' = forEachSelectedCell(store, SelectedCells(ranges),
                                  Patch(IF target = "fill" THEN "fillColor" ELSE "textColor",
                                        color))
  /\ UNCHANGED <<selectedPreset, gridData, gridEpoch, hotSource, presetCall>>
  /\ UNCHANGED <<presetAppFrame, label, hotReady>>

\* the grid mounts with the data of the last render
mountPresetGrid ==
  /\ ~hotReady
  /\ hotReady' = TRUE
  /\ hotSource' = gridData
  /\ UNCHANGED <<selectedPreset, gridData, gridEpoch, store, presetCall>>
  /\ UNCHANGED <<presetAppFrame, label>>

\* the user types into a cell of the mounted grid
editCell(cell, value) ==
  /\ hotReady
  /\ hotSource' = IF value = NullValue
                    THEN [k \in DOMAIN hotSource \ {cell} |-> hotSource[k]]
                    ELSE [k \in DOMAIN hotSource \cup {cell} |->
                            IF k = cell THEN value ELSE hotSource[k]]
  /\ UNCHANGED <<selectedPreset, gridData, gridEpoch, store, presetCall>>
  /\ UNCHANGED <<presetAppFrame, label, hotReady>>

\* window.confirm is asked, and answers confirmed, only when the grid has
\* content; the grid is keyed by preset and epoch, so a load remounts it
handlePresetSelect(nextPreset, confirmed) ==
  LET hasCurrentData ==
        IF hotReady THEN sourceHasNonEmptyCells(hotSource) ELSE hasNonEmptyCells(gridData)
  IN /\ presetCall.calls < MaxPresetCalls
     /\ presetCall' = [calls |-> presetCall.calls + 1, nextPreset |-> nextPreset,
                       hasCurrentData |-> hasCurrentData,
                       confirmed |-> hasCurrentData /\ confirmed,
                       styled |-> DOMAIN store # {}]
     /\ IF hasCurrentData /\ ~confirmed
          THEN UNCHANGED <<selectedPreset, gridData, gridEpoch, store, hotSource, label>>
          ELSE /\ store' = clearAllStyles(store)
               /\ selectedPreset' = nextPreset
               /\ gridData' = buildPresetGrid(nextPreset)
               /\ gridEpoch' = gridEpoch + 1
               /\ label' = buildDefaultLabel(nextPreset)
               /\ hotSource' = buildPresetGrid(nextPreset)
     /\ UNCHANGED <<presetAppFrame, hotReady>>

\* ---------------------------------------------------------------------------
\* The absolute-reference toggle (cycleAbsoluteReferenceToken and its helpers);
\* a token is a string, and a string | null is NoString or Some(string)
\* ---------------------------------------------------------------------------

NoString == [isNull |-> TRUE, text |-> ""]
Some(text) == [isNull |-> FALSE, text |-> text]

CharAt(text, i) == SubSeq(text, i, i)
LowerCase == "abcdefghijklmnopqrstuvwxyz"
UpperCase == "ABCDEFGHIJKLMNOPQRSTUVWXYZ"
IsLetter(ch) == \E i \in 1..26 : ch = CharAt(LowerCase, i) \/ ch = CharAt(UpperCase, i)
IsDigit(ch) == \E i \in 1..10 : ch = CharAt("0123456789", i)

RECURSIVE toUpperCase(_)
toUpperCase(text) ==
  IF Len(text) = 0 THEN ""
  ELSE (IF \E i \in 1..26 : CharAt(text, 1) = CharAt(LowerCase, i)
          THEN CharAt(UpperCase, CHOOSE i \in 1..26 : CharAt(text, 1) = CharAt(LowerCase, i))
          ELSE CharAt(text, 1))
       \o toUpperCase(SubSeq(text, 2, Len(text)))

\* text.split(separator), separator one character
RECURSIVE split(_, _)
split(text, separator) ==
  IF \E i \in 1..Len(text) : CharAt(text, i) = separator
    THEN LET i == CHOOSE i \in 1..Len(text) :
                    /\ CharAt(text, i) = separator
                    /\ \A j \in 1..(i - 1) : CharAt(text, j) # separator
         IN <<SubSeq(text, 1, i - 1)>> \o split(SubSeq(text, i + 1, Len(text)), separator)
    ELSE <<text>>

\* how many letters text starts with
RECURSIVE LeadingLetters(_)
LeadingLetters(text) ==
  IF Len(text) > 0 /\ IsLetter(CharAt(text, 1))
    THEN 1 + LeadingLetters(SubSeq(text, 2, Len(text)))
    ELSE 0

\* reference.match(/^(\$?)([A-Za-z]+)(\$?)(\d+)$/): the groups, or matched FALSE
A1_REFERENCE_PART_RE(reference) ==
  LET colPrefix == IF Len(reference) > 0 /\ CharAt(reference, 1) = "$" THEN "$" ELSE ""
      afterColPrefix == SubSeq(reference, Len(colPrefix) + 1, Len(reference))
      letters == LeadingLetters(afterColPrefix)
      afterColumn == SubSeq(afterColPrefix, letters + 1, Len(afterColPrefix))
      rowPrefix == IF Len(afterColumn) > 0 /\ CharAt(afterColumn, 1) = "$" THEN "$" ELSE ""
      row == SubSeq(afterColumn, Len(rowPrefix) + 1, Len(afterColumn))
  IN [matched |-> /\ letters > 0
                  /\ Len(row) > 0
                  /\ \A i \in 1..Len(row) : IsDigit(CharAt(row, i)),
      colPrefix |-> colPrefix,
      column |-> SubSeq(afterColPrefix, 1, letters),
      rowPrefix |-> rowPrefix,
      row |-> row]

\* /^\$?[A-Za-z]+\$?\d+(?::\$?[A-Za-z]+\$?\d+)?$/.test(token)
A1_REFERENCE_TOKEN_RE(token) ==
  LET references == split(token, ":")
  IN /\ Len(references) \in {1, 2}
     /\ \A i \in DOMAIN references : A1_REFERENCE_PART_RE(references[i]).matched

parseA1ReferencePart(reference) ==
  LET match == A1_REFERENCE_PART_RE(reference)
  IN [isNull |-> ~match.matched,
      colAbsolute |-> match.colPrefix = "$",
      column |-> toUpperCase(match.column),
      rowAbsolute |-> match.rowPrefix = "$",
      row |-> match.row]

getAbsoluteReferenceMode(reference) ==
  IF reference.colAbsolute /\ reference.rowAbsolute THEN "absolute"
  ELSE IF ~reference.colAbsolute /\ reference.rowAbsolute THEN "row"
  ELSE IF reference.colAbsolute /\ ~reference.rowAbsolute THEN "column"
  ELSE "relative"

nextAbsoluteReferenceMode(mode) ==
  IF mode = "relative" THEN "absolute"
  ELSE IF mode = "absolute" THEN "row"
  ELSE IF mode = "row" THEN "column"
  ELSE "relative"

formatA1ReferencePart(reference, mode) ==
  LET columnPrefix == IF mode = "absolute" \/ mode = "column" THEN "$" ELSE ""
      rowPrefix == IF mode = "absolute" \/ mode = "row" THEN "$" ELSE ""
  IN columnPrefix \o reference.column \o rowPrefix \o reference.row

\* mutant: each endpoint of a range follows its own mode
cycleAbsoluteReferenceTokenPerEndpoint(token) ==
  IF ~A1_REFERENCE_TOKEN_RE(token) THEN NoString
  ELSE LET references == split(token, ":")
           parsedParts == [i \in DOMAIN references |-> parseA1ReferencePart(references[i])]
       IN IF \E i \in DOMAIN parsedParts : parsedParts[i].isNull THEN NoString
          ELSE Some(Join([i \in DOMAIN parsedParts |->
                            formatA1ReferencePart(parsedParts[i],
                              nextAbsoluteReferenceMode(getAbsoluteReferenceMode(parsedParts[i])))],
                         ":"))
cycleAbsoluteReferenceToken(token) ==
  IF ~A1_REFERENCE_TOKEN_RE(token) THEN NoString
  ELSE LET references == split(token, ":")
           parsedParts == [i \in DOMAIN references |-> parseA1ReferencePart(references[i])]
           nextMode == nextAbsoluteReferenceMode(getAbsoluteReferenceMode(parsedParts[1]))
       IN IF \E i \in DOMAIN parsedParts : parsedParts[i].isNull THEN NoString
          ELSE Some(Join([i \in DOMAIN parsedParts |->
                            formatA1ReferencePart(parsedParts[i], nextMode)], ":"))

VARIABLES
  referenceToken,   \* the token the toggle was first applied to
  currentReference, \* what the last application returned
  cycles            \* how many times the toggle was applied

referenceVars == <<referenceToken, currentReference, cycles>>

ReferenceColumns == {"a", "B", "aB"}
ReferenceRows == {"1", "20"}
ReferenceParts ==
  {colPrefix \o column \o rowPrefix \o row :
     colPrefix \in {"", "$"}, column \in ReferenceColumns,
     rowPrefix \in {"", "$"}, row \in ReferenceRows}
ReferenceRanges == {first \o ":" \o "c3" : first \in ReferenceParts}
                     \cup {"A1" \o ":" \o second : second \in ReferenceParts}
                     \cup {"$A1:$b$2", "A$1:b2", "$A$1:B$2"}
NotReferences == {"", "A", "1", "$", "1A", "A1:", ":A1", "A1:B2:C3", "A$", "$$A1", "A1 ", "A-1"}
ReferenceTokens == ReferenceParts \cup ReferenceRanges \cup NotReferences

ReferenceIdle ==
  /\ referenceToken = ""
  /\ currentReference = NoString
  /\ cycles = 0

ReferenceInit ==
  /\ referenceToken \in ReferenceTokens
  /\ currentReference = Some(referenceToken)
  /\ cycles = 0

\* one press of the toggle on the reference under the caret; a null result
\* leaves the editor's text as it is
toggleAbsoluteReference ==
  /\ cycles < MaxCycles
  /\ ~currentReference.isNull
  /\ currentReference' = cycleAbsoluteReferenceToken(currentReference.text)
  /\ cycles' = cycles + 1
  /\ UNCHANGED referenceToken

\* ---------------------------------------------------------------------------
\* handleSignIn together with the calls it awaits: requestGoogleAccessToken
\* and the requests of findOrCreateMiniLedger
\* ---------------------------------------------------------------------------
VARIABLES
  tokenRequest,   \* the promise of requestGoogleAccessToken handleSignIn awaits
  signIns         \* how many times handleSignIn went past its guard

signInVars == <<tokenRequest, signIns>>

NoTokenRequest == [state |-> "none", message |-> "", value |-> ""]
PendingTokenRequest == [state |-> "pending", message |-> "", value |-> ""]

SignInIdle ==
  /\ tokenRequest = NoTokenRequest
  /\ signIns = 0

SignInInFlight == \E i \in 1..Len(tasks) : tasks[i].kind = "signIn"

\* a click on the save button: handleSignIn calls requestGoogleAccessToken
clickSaveMain ==
  /\ signIns < MaxSignIns
  /\ handleSaveMainClick
  /\ IF (accessToken = "" \/ ledgerTarget = NoTarget) /\ clientId # ""
       THEN tokenRequest' = PendingTokenRequest /\ signIns' = signIns + 1
       ELSE UNCHANGED signInVars
  /\ UNCHANGED ledgerVars

\* the token client calls back, or the script never loads
requestGoogleAccessTokenSettles(result) ==
  /\ tokenRequest.state = "pending"
  /\ tokenRequest' = result
  /\ UNCHANGED <<signIns, ledgerVars, appVars>>

\* handleSignIn resumes after the token: on a token it calls
\* findOrCreateMiniLedger, which issues its first request
handleSignInAfterToken(i) ==
  /\ tokenRequest.state \in {"fulfilled", "rejected"}
  /\ handleSignInTokenSettled(i, tokenRequest)
  /\ tokenRequest' = NoTokenRequest
  /\ IF tokenRequest.state = "fulfilled" THEN findOrCreateMiniLedger ELSE UNCHANGED ledgerVars
  /\ UNCHANGED signIns

\* mutant: a rejected ledger lookup still stores the token
handleSignInAfterLedgerKeepingToken(i) ==
  /\ pc = "settled"
  /\ handleSignInLedgerSettled(i, [outcome EXCEPT !.state = "fulfilled", !.value = NoTarget])
  /\ pc' = "idle"
  /\ request' = NoRequest
  /\ existingFile' = NoFile
  /\ metadata' = NoMetadata
  /\ fetchCalls' = <<>>
  /\ fetchResponses' = <<>>
  /\ outcome' = Pending
  /\ UNCHANGED signInVars
\* handleSignIn resumes after findOrCreateMiniLedger, whose call is over
handleSignInAfterLedger(i) ==
  /\ pc = "settled"
  /\ handleSignInLedgerSettled(i, outcome)
  /\ pc' = "idle"
  /\ request' = NoRequest
  /\ existingFile' = NoFile
  /\ metadata' = NoMetadata
  /\ fetchCalls' = <<>>
  /\ fetchResponses' = <<>>
  /\ outcome' = Pending
  /\ UNCHANGED signInVars

\* ---------------------------------------------------------------------------
\* services/googleAuth.ts: loadGoogleIdentityScript. A promise is the number
\* of its creation by new Promise (1, 2, ...); Promise.resolve() is promise 0,
\* a fresh fulfilled promise; loadPromise = 0 is null.
\* ---------------------------------------------------------------------------
VARIABLES
  loadPromise,     \* the module-level loadPromise
  promiseStates,   \* the state of each promise new Promise created, by number
  windowGoogle,    \* whether window.google?.accounts?.oauth2 is there
  scriptElements,  \* the script elements of the document with the Google src
  appendedScripts, \* how many of them loadGoogleIdentityScript appended
  scriptListeners, \* the promises the load and error events of the script settle
  timeouts,        \* the promises a running 10 s timer rejects
  loadCalls        \* what each call of loadGoogleIdentityScript found and returned

authVars ==
  <<loadPromise, promiseStates, windowGoogle, scriptElements, appendedScripts,
    scriptListeners, timeouts, loadCalls>>

AuthIdle ==
  /\ loadPromise = 0
  /\ promiseStates = <<>>
  /\ windowGoogle = FALSE
  /\ scriptElements = 0
  /\ appendedScripts = 0
  /\ scriptListeners = {}
  /\ timeouts = {}
  /\ loadCalls = <<>>

\* the page may already hold the script element, loaded or not
AuthInit ==
  /\ loadPromise = 0
  /\ promiseStates = <<>>
  /\ windowGoogle \in BOOLEAN
  /\ scriptElements \in {0, 1}
  /\ windowGoogle => scriptElements = 1
  /\ appendedScripts = 0
  /\ scriptListeners = {}
  /\ timeouts = {}
  /\ loadCalls = <<>>

\* the mount effect of App and requestGoogleAccessToken call the loader
LoadCallers == {"App", "requestGoogleAccessToken"}
LoadCall(caller, promise) ==
  [caller |-> caller, windowGoogle |-> windowGoogle, promise |-> promise]

\* settling a promise that is still pending; a settled one stays as it is
Settle(states, promises, state) ==
  [n \in DOMAIN states |->
     IF n \in promises /\ states[n] = "pending" THEN state ELSE states[n]]

\* mutant: the promise is not kept when it is found
loadGoogleIdentityScriptForgetful(caller) ==
  /\ Len(loadCalls) < MaxLoadCalls
  /\ IF windowGoogle
       THEN /\ loadCalls' = Append(loadCalls, LoadCall(caller, 0))
            /\ UNCHANGED <<loadPromise, promiseStates, scriptElements, appendedScripts,
                           scriptListeners, timeouts>>
       ELSE LET promise == Len(promiseStates) + 1
            IN  /\ loadPromise' = promise
                /\ loadCalls' = Append(loadCalls, LoadCall(caller, promise))
                /\ IF scriptElements > 0
                     THEN /\ promiseStates' = Append(promiseStates, "pending")
                          /\ timeouts' = timeouts \cup {promise}
                          /\ scriptListeners' = scriptListeners \cup {promise}
                          /\ UNCHANGED <<scriptElements, appendedScripts>>
                     ELSE /\ promiseStates' = Append(promiseStates, "pending")
                          /\ scriptListeners' = scriptListeners \cup {promise}
                          /\ scriptElements' = scriptElements + 1
                          /\ appendedScripts' = appendedScripts + 1
                          /\ UNCHANGED timeouts
  /\ UNCHANGED windowGoogle
\* one call of loadGoogleIdentityScript, the executor of new Promise included
loadGoogleIdentityScript(caller) ==
  /\ Len(loadCalls) < MaxLoadCalls
  /\ IF windowGoogle
       THEN /\ loadCalls' = Append(loadCalls, LoadCall(caller, 0))
            /\ UNCHANGED <<loadPromise, promiseStates, scriptElements, appendedScripts,
                           scriptListeners, timeouts>>
       ELSE IF loadPromise # 0
         THEN /\ loadCalls' = Append(loadCalls, LoadCall(caller, loadPromise))
              /\ UNCHANGED <<loadPromise, promiseStates, scriptElements, appendedScripts,
                             scriptListeners, timeouts>>
       ELSE LET promise == Len(promiseStates) + 1
            IN  /\ loadPromise' = promise
                /\ loadCalls' = Append(loadCalls, LoadCall(caller, promise))
                /\ IF scriptElements > 0
                     THEN \* window.google was just seen missing: the timer and
                          \* the once-listeners are set
                          /\ promiseStates' = Append(promiseStates, "pending")
                          /\ timeouts' = timeouts \cup {promise}
                          /\ scriptListeners' = scriptListeners \cup {promise}
                          /\ UNCHANGED <<scriptElements, appendedScripts>>
                     ELSE /\ promiseStates' = Append(promiseStates, "pending")
                          /\ scriptListeners' = scriptListeners \cup {promise}
                          /\ scriptElements' = scriptElements + 1
                          /\ appendedScripts' = appendedScripts + 1
                          /\ UNCHANGED timeouts
  /\ UNCHANGED windowGoogle

\* the script element fires load; the library it ran may have defined
\* window.google or not
scriptLoad(defined) ==
  /\ scriptElements > 0
  /\ scriptListeners # {}
  /\ promiseStates' = Settle(promiseStates, scriptListeners, "fulfilled")
  /\ scriptListeners' = {}
  /\ timeouts' = {}
  /\ windowGoogle' = (windowGoogle \/ defined)
  /\ UNCHANGED <<loadPromise, scriptElements, appendedScripts, loadCalls>>

\* the script element fires error
scriptError ==
  /\ scriptElements > 0
  /\ scriptListeners # {}
  /\ promiseStates' = Settle(promiseStates, scriptListeners, "rejected")
  /\ scriptListeners' = {}
  /\ timeouts' = {}
  /\ UNCHANGED <<loadPromise, windowGoogle, scriptElements, appendedScripts, loadCalls>>

\* the 10 s timer of a call that found the element in the page runs out
scriptTimeout(promise) ==
  /\ promise \in timeouts
  /\ promiseStates' = Settle(promiseStates, {promise}, "rejected")
  /\ timeouts' = timeouts \ {promise}
  /\ UNCHANGED <<loadPromise, windowGoogle, scriptElements, appendedScripts,
                 scriptListeners, loadCalls>>

(***************************************************************************)
(* The preset menu and the save menu of the sidebar (vite-env.d.ts         *)
(* 321-324, 342-386, 403-440).  menuOpen and menuVisible are the state of  *)
(* the last committed render, which is what the callbacks of that render   *)
(* read.  A click is a discrete event: React renders it and runs its       *)
(* effects before the handler's task ends, so a click is one step.  The    *)
(* callback of the hide timer runs outside any event: its setState is      *)
(* queued (pendingHide) and rendered by a later task.                      *)
(***************************************************************************)
VARIABLES menuOpen, menuVisible, hideTimer, pendingHide

menuVars == <<menuOpen, menuVisible, hideTimer, pendingHide>>

Menus == {"preset", "save"}

DROPDOWN_TRANSITION_MS == 220

\* hideTimer[menu] is the list of the armed timers of the menu's hide effect,
\* each the milliseconds left until it is due: at most one is armed
NoTimer == <<>>
Timer(ms) == <<ms>>
Armed(menu) == hideTimer[menu] # NoTimer
Due(menu) == Armed(menu) /\ hideTimer[menu][1] = 0

\* the state after the first render and its effects: both menus closed and
\* hidden, and each hide effect has armed its timer
MenuInit ==
  /\ menuOpen = [menu \in Menus |-> FALSE]
  /\ menuVisible = [menu \in Menus |-> FALSE]
  /\ hideTimer = [menu \in Menus |-> Timer(DROPDOWN_TRANSITION_MS)]
  /\ pendingHide = [menu \in Menus |-> FALSE]

MenuIdle ==
  /\ menuOpen = [menu \in Menus |-> FALSE]
  /\ menuVisible = [menu \in Menus |-> FALSE]
  /\ hideTimer = [menu \in Menus |-> NoTimer]
  /\ pendingHide = [menu \in Menus |-> FALSE]

\* the hide effects of a render that commits nextOpen: an effect runs only
\* when its menu's open flag changed; its cleanup clears the timer of the
\* previous run, and it arms a new one unless the menu is open
hideTimerEffect(nextOpen) ==
  [menu \in Menus |->
     IF nextOpen[menu] = menuOpen[menu] THEN hideTimer[menu]
     ELSE IF nextOpen[menu] THEN NoTimer
     ELSE Timer(DROPDOWN_TRANSITION_MS)]

\* a discrete event whose handler called setOpen / setVisible: the values are
\* rendered and the hide effects run; a queued update of the timer callback
\* stays queued unless the handler set the same flag after it
commitDiscrete(nextOpen, shown) ==
  /\ menuOpen' = nextOpen
  /\ menuVisible' = [menu \in Menus |-> menuVisible[menu] \/ menu \in shown]
  /\ pendingHide' = [menu \in Menus |-> pendingHide[menu] /\ menu \notin shown]
  /\ hideTimer' = hideTimerEffect(nextOpen)

closeMenu(menu) == [menuOpen EXCEPT ![menu] = FALSE]

\* togglePresetMenu / toggleSaveMenu: the click on the menu's trigger
toggleMenu(menu) ==
  IF menuOpen[menu] THEN commitDiscrete(closeMenu(menu), {})
  ELSE IF ~menuVisible[menu]
       THEN commitDiscrete([menuOpen EXCEPT ![menu] = TRUE], {menu})
       ELSE commitDiscrete([menuOpen EXCEPT ![menu] = TRUE], {})

\* a click on an option of a menu that is rendered: closePresetMenu (1394),
\* closeSaveMenu (713, 733, 1541)
selectOption(menu) ==
  /\ menuVisible[menu]
  /\ commitDiscrete(closeMenu(menu), {})

\* toggleSidebar closes both menus
toggleSidebar ==
  commitDiscrete([menu \in Menus |-> FALSE], {})

\* the document's mousedown listener, registered while a menu is visible:
\* every visible menu the click is outside of is closed
handleClick(outside) ==
  /\ \E menu \in Menus : menuVisible[menu]
  /\ outside # {}
  /\ commitDiscrete([menu \in Menus |->
                       menuOpen[menu] /\ ~(menuVisible[menu] /\ menu \in outside)], {})

\* time passes for the armed timers
timePasses ==
  /\ \E menu \in Menus : Armed(menu) /\ ~Due(menu)
  /\ hideTimer' = [menu \in Menus |->
                     IF ~Armed(menu) THEN NoTimer
                     ELSE IF hideTimer[menu][1] > TickMs
                          THEN Timer(hideTimer[menu][1] - TickMs)
                          ELSE Timer(0)]
  /\ UNCHANGED <<menuOpen, menuVisible, pendingHide>>

\* the timer callback () => setVisible(false): nothing is queued when the
\* flag is already false
hideTimerFires(menu) ==
  /\ Due(menu)
  /\ hideTimer' = [hideTimer EXCEPT ![menu] = NoTimer]
  /\ pendingHide' = [pendingHide EXCEPT ![menu] = menuVisible[menu]]
  /\ UNCHANGED <<menuOpen, menuVisible>>

\* the render of the updates the timer callbacks queued
renderPendingHide ==
  /\ \E menu \in Menus : pendingHide[menu]
  /\ menuVisible' = [menu \in Menus |-> menuVisible[menu] /\ ~pendingHide[menu]]
  /\ pendingHide' = [menu \in Menus |-> FALSE]
  /\ UNCHANGED <<menuOpen, hideTimer>>

(***************************************************************************)
(* Pointing at cells with the keyboard while a formula is edited           *)
(* (vite-env.d.ts 836-925, 1918-2060).  editorInput and caretPosition are  *)
(* the value and the caret of the open editor's textarea, session is       *)
(* formulaEditSessionRef.current; positions count from 0 as in the code.   *)
(***************************************************************************)
VARIABLES editorInput, caretPosition, session, run

formulaVars == <<editorInput, caretPosition, session, run>>

\* the grid the cursor moves in: GRID_ROWS rows, activeColumnCount columns
GRID_ROWS == AppGridRows

NoRange == [isNull |-> TRUE, start |-> 0, end |-> 0]
Range(start, end) == [isNull |-> FALSE, start |-> start, end |-> end]

\* input.slice(start, end) and input.slice(start)
slice(input, start, end) == SubSeq(input, start + 1, end)
sliceFrom(input, start) == SubSeq(input, start + 1, Len(input))

\* input.trimStart().startsWith('='): the inputs of the model hold no blanks
isFormulaInput(input) == Len(input) > 0 /\ CharAt(input, 1) = "="

ArrowKeys == {"ArrowUp", "ArrowDown", "ArrowLeft", "ArrowRight"}
isArrowKey(eventKey) == eventKey \in ArrowKeys

Min(a, b) == IF a < b THEN a ELSE b

moveReferenceCursor(row, col, eventKey, maxVisibleCol) ==
  IF eventKey = "ArrowUp" THEN <<Max(row - 1, 0), col>>
  ELSE IF eventKey = "ArrowDown" THEN <<Min(row + 1, GRID_ROWS - 1), col>>
  ELSE IF eventKey = "ArrowLeft" THEN <<row, Max(col - 1, 0)>>
  ELSE <<row, Min(col + 1, Max(maxVisibleCol, 0))>>

resetsReferenceRange(eventKey) ==
  Len(eventKey) = 1 \/ eventKey = "Backspace" \/ eventKey = "Delete"

FORMULA_OPERATORS == {"+", "-", "*", "/", "^", "(", ","}
isFormulaOperator(eventKey) == eventKey \in FORMULA_OPERATORS

toA1Reference(row, col) == columnToLetters(col) \o ToString(row + 1)

\* /[A-Za-z0-9:$]/.test(char)
isRefChar(char) == IsLetter(char) \/ IsDigit(char) \/ char = ":" \/ char = "$"

\* the token of reference characters around the caret, when it is a reference
detectReferenceTokenRange(input, caret) ==
  LET refAt(position) == isRefChar(CharAt(input, position + 1))
      seed == IF caret > 0 /\ refAt(caret - 1) THEN caret - 1
              ELSE IF caret < Len(input) /\ refAt(caret) THEN caret
              ELSE -1
      start == CHOOSE s \in 0..seed :
                 /\ \A p \in s..seed : refAt(p)
                 /\ (s = 0 \/ ~refAt(s - 1))
      end == CHOOSE e \in (seed + 1)..Len(input) :
               /\ \A p \in seed..(e - 1) : refAt(p)
               /\ (e = Len(input) \/ ~refAt(e))
  IN IF seed < 0 THEN NoRange
     ELSE IF ~A1_REFERENCE_TOKEN_RE(slice(input, start, end)) THEN NoRange
     ELSE Range(start, end)

\* the check upsertFormulaReference makes of session.pendingReferenceRange
pendingIsUsable(pending, currentInput) ==
  /\ ~pending.isNull
  /\ pending.start >= 0
  /\ pending.end >= pending.start
  /\ pending.end <= Len(currentInput)

\* upsertFormulaReference always inserting at the caret
upsertFormulaReferenceAppending(editorContext, sessionBefore, reference) ==
  LET start == editorContext.caretPosition
      nextEnd == start + Len(reference)
  IN [input |-> slice(editorContext.input, 0, start) \o reference
                  \o sliceFrom(editorContext.input, start),
      caretPosition |-> nextEnd,
      session |-> [sessionBefore EXCEPT !.pendingReferenceRange = Range(start, nextEnd)]]
\* the editor and the session after the call
upsertFormulaReference(editorContext, sessionBefore, reference) ==
  LET currentInput == editorContext.input
      pending == sessionBefore.pendingReferenceRange
      detected == detectReferenceTokenRange(currentInput, editorContext.caretPosition)
      target == IF pendingIsUsable(pending, currentInput) THEN pending
                ELSE IF ~detected.isNull THEN detected
                ELSE Range(editorContext.caretPosition, editorContext.caretPosition)
      nextEnd == target.start + Len(reference)
  IN [input |-> slice(currentInput, 0, target.start) \o reference
                  \o sliceFrom(currentInput, target.end),
      caretPosition |-> nextEnd,
      session |-> [sessionBefore EXCEPT
                     !.pendingReferenceRange = Range(target.start, nextEnd)]]

\* the keys of the model besides the arrows: one that types a character and
\* one that changes nothing
TypedKeys == {"+"}
OtherKeys == TypedKeys \cup {"Shift"}

\* what the textarea does with a key the handler did not cancel
textareaInput(eventKey) ==
  IF eventKey \in TypedKeys
    THEN slice(editorInput, 0, caretPosition) \o eventKey \o sliceFrom(editorInput, caretPosition)
  ELSE editorInput
textareaCaret(eventKey) ==
  IF eventKey \in TypedKeys THEN caretPosition + 1
  ELSE caretPosition

\* the run of arrow presses in progress: how many presses (two stands for two
\* or more), and the editor and the pending range as the first press found them
NoRun == [presses |-> 0, input |-> "", caretPosition |-> 0, pending |-> NoRange]
runAfterArrow ==
  IF run.presses = 0
    THEN [presses |-> 1, input |-> editorInput, caretPosition |-> caretPosition,
          pending |-> session.pendingReferenceRange]
    ELSE [run EXCEPT !.presses = 2]

\* handleBeforeKeyDown with the editor open, followed by the textarea's own
\* handling of the key when the handler let it through
handleBeforeKeyDown(eventKey) ==
  IF ~isFormulaInput(editorInput) THEN
    /\ ~isArrowKey(eventKey)
    /\ eventKey \in TypedKeys => Len(editorInput) < MaxInputLength
    /\ editorInput' = textareaInput(eventKey)
    /\ caretPosition' = textareaCaret(eventKey)
    /\ run' = NoRun
    /\ UNCHANGED session
  ELSE IF isArrowKey(eventKey) THEN
    LET next == moveReferenceCursor(session.cursorRow, session.cursorCol, eventKey,
                                    activeColumnCount - 1)
        moved == [session EXCEPT !.cursorRow = next[1], !.cursorCol = next[2],
                                 !.lastReferenceInput = "keyboard"]
        after == upsertFormulaReference(
                   [input |-> editorInput, caretPosition |-> caretPosition],
                   moved, toA1Reference(next[1], next[2]))
    IN /\ Len(editorInput) <= MaxInputLength
       /\ editorInput' = after.input
       /\ caretPosition' = after.caretPosition
       /\ session' = after.session
       /\ run' = runAfterArrow
  ELSE
    LET home == isFormulaOperator(eventKey) /\ session.lastReferenceInput = "keyboard"
    IN /\ eventKey \in TypedKeys => Len(editorInput) < MaxInputLength
       /\ session' = [session EXCEPT
            !.cursorRow = IF home THEN session.editRow ELSE @,
            !.cursorCol = IF home THEN session.editCol ELSE @,
            !.pendingReferenceRange = IF resetsReferenceRange(eventKey) THEN NoRange ELSE @]
       /\ editorInput' = textareaInput(eventKey)
       /\ caretPosition' = textareaCaret(eventKey)
       /\ run' = NoRun

\* handleBeforeOnCellMouseDown: a click on another cell of the grid points at it
handleBeforeOnCellMouseDown(coords) ==
  /\ isFormulaInput(editorInput)
  /\ coords[1] >= 0 /\ coords[2] >= 0 /\ coords[2] < activeColumnCount
  /\ ~(coords[1] = session.editRow /\ coords[2] = session.editCol)
  /\ LET moved == [session EXCEPT !.cursorRow = coords[1], !.cursorCol = coords[2],
                                  !.lastReferenceInput = "mouse"]
         after == upsertFormulaReference(
                    [input |-> editorInput, caretPosition |-> caretPosition],
                    moved, toA1Reference(coords[1], coords[2]))
     IN /\ Len(editorInput) <= MaxInputLength
        /\ editorInput' = after.input
        /\ caretPosition' = after.caretPosition
        /\ session' = after.session
  /\ UNCHANGED run

\* a click into the text of the editor: the textarea moves its caret there,
\* and no handler of the grid runs
clickTextarea(position) ==
  /\ position \in 0..Len(editorInput)
  /\ position # caretPosition
  /\ caretPosition' = position
  /\ UNCHANGED <<editorInput, session, run>>

\* syncFormulaSession on an editor just opened on the cell
createdSession(row, col) ==
  [editRow |-> row, editCol |-> col, cursorRow |-> row, cursorCol |-> col,
   pendingReferenceRange |-> NoRange, lastReferenceInput |-> "null"]

FormulaIdle ==
  /\ editorInput = ""
  /\ caretPosition = 0
  /\ session = createdSession(0, 0)
  /\ run = NoRun

\* the editor just after "=" was typed into the first cell of the grid
FormulaInit ==
  /\ editorInput = "="
  /\ caretPosition = 1
  /\ session = createdSession(0, 0)
  /\ run = NoRun

(***************************************************************************)
(* lib/cellFormat.ts called directly: setCellStyle and clearAllStyles on   *)
(* the module's store, with styleCall recording the last call and the      *)
(* store it found.                                                         *)
(***************************************************************************)
VARIABLES styleCall

styleVars == <<styleCall>>

StyleCells == {<<0, 0>>, <<0, 1>>}

\* patches of one property and of two, with truthy and with falsy values
StylePatches ==
  {Patch("bold", "true"), Patch("bold", "undefined"),
   Patch("fillColor", "#ef4444"), Patch("fillColor", ""),
   [p \in {"bold", "borderTop"} |-> IF p = "bold" THEN "false" ELSE "2"],
   Patch("borderTop", "0")}

NoStyleCall == [op |-> "none", cell |-> <<0, 0>>, patch |-> EmptyStore, before |-> EmptyStore]

StyleIdle == styleCall = NoStyleCall

\* the rest of the App component and of its grid, which the library never touches
styleFrame ==
  <<selectedPreset, gridData, gridEpoch, hotSource, presetCall, appVars>>

callSetCellStyle(cell, patch) ==
  /\ store' = setCellStyle(store, cell[1], cell[2], patch)
  /\ styleCall' = [op |-> "setCellStyle", cell |-> cell, patch |-> patch, before |-> store]
  /\ UNCHANGED styleFrame

callClearAllStyles ==
  /\ store' = clearAllStyles(store)
  /\ styleCall' = [op |-> "clearAllStyles", cell |-> <<0, 0>>, patch |-> EmptyStore,
                   before |-> store]
  /\ UNCHANGED styleFrame

vars == <<ledgerVars, exportVars, appVars, zipVars, snapshotVars, presetVars, referenceVars, signInVars, authVars, menuVars, formulaVars, styleVars>>
\* what the steps of one part of the program leave alone
exceptLedger == <<exportVars, appVars, zipVars, snapshotVars, presetVars, referenceVars, signInVars, authVars, menuVars, formulaVars, styleVars>>
exceptExport == <<ledgerVars, appVars, zipVars, snapshotVars, presetVars, referenceVars, signInVars, authVars, menuVars, formulaVars, styleVars>>
exceptApp == <<ledgerVars, exportVars, zipVars, snapshotVars, presetVars, referenceVars, signInVars, authVars, menuVars, formulaVars, styleVars>>
exceptZip == <<ledgerVars, exportVars, appVars, snapshotVars, presetVars, referenceVars, signInVars, authVars, menuVars, formulaVars, styleVars>>
exceptSnapshot == <<ledgerVars, exportVars, appVars, zipVars, presetVars, referenceVars, signInVars, authVars, menuVars, formulaVars, styleVars>>
exceptPreset == <<ledgerVars, exportVars, zipVars, snapshotVars, referenceVars, signInVars, authVars, menuVars, formulaVars, styleVars>>
exceptReference == <<ledgerVars, exportVars, appVars, zipVars, snapshotVars, presetVars, signInVars, authVars, menuVars, formulaVars, styleVars>>
exceptSignIn == <<exportVars, zipVars, snapshotVars, presetVars, referenceVars, authVars, menuVars, formulaVars, styleVars>>
exceptAuth == <<ledgerVars, exportVars, appVars, zipVars, snapshotVars, presetVars, referenceVars, signInVars, menuVars, formulaVars, styleVars>>
exceptMenu == <<ledgerVars, exportVars, appVars, zipVars, snapshotVars, presetVars, referenceVars, signInVars, authVars, formulaVars, styleVars>>
exceptFormula == <<ledgerVars, exportVars, appVars, zipVars, snapshotVars, presetVars, referenceVars, signInVars, authVars, menuVars, styleVars>>
exceptStyle == <<ledgerVars, exportVars, zipVars, snapshotVars, referenceVars, signInVars, authVars, menuVars, formulaVars>>

Init == LedgerInit /\ ExportIdle /\ AppIdle /\ ZipIdle /\ SnapshotIdle /\ PresetIdle /\ ReferenceIdle /\ SignInIdle /\ AuthIdle /\ MenuIdle /\ FormulaIdle /\ StyleIdle

Next ==
  \/ \E req \in SaveRequests :
       appendLedgerBlock(req) /\ UNCHANGED exceptLedger
  \/ \E response \in Responses({EmptyObject}) :
       appendLedgerBlockSettled(response) /\ UNCHANGED exceptLedger
  \/ findOrCreateMiniLedger /\ UNCHANGED exceptLedger
  \/ \E response \in Responses(ListPayloads) :
       findMostRecentlyModifiedLedger(response) /\ UNCHANGED exceptLedger
  \/ \E response \in Responses(MetadataPayloads({existingFile.id})) :
       getSpreadsheetMetadata(response) /\ UNCHANGED exceptLedger
  \/ \E response \in Responses(AddSheetPayloads) :
       ensureArchiveSheet(response) /\ UNCHANGED exceptLedger
  \/ \E response \in Responses(MetadataPayloads({"spreadsheet-created"})) :
       createMiniLedger(response) /\ UNCHANGED exceptLedger

\* the ledger service: one call of appendLedgerBlock or findOrCreateMiniLedger
Spec == Init /\ [][Next]_vars

InitExport == LedgerInit /\ ExportInit /\ AppIdle /\ ZipIdle /\ SnapshotIdle /\ PresetIdle /\ ReferenceIdle /\ SignInIdle /\ AuthIdle /\ MenuIdle /\ FormulaIdle /\ StyleIdle

ExportNext ==
  \E format \in ExportFormats :
    handleDownload(format) /\ UNCHANGED exceptExport

\* the export builders applied to a snapshot of the grid
SpecExport == InitExport /\ [][ExportNext]_vars

AppNext ==
  \/ \E i \in 1..MaxTasks, loaded \in BOOLEAN :
       loadGoogleIdentityScriptSettled(i, loaded) /\ UNCHANGED exceptApp
  \/ mountGrid /\ UNCHANGED exceptApp
  \/ \E text \in AppLabels : setLabel(text) /\ UNCHANGED exceptApp
  \/ handleSaveMainClick /\ UNCHANGED exceptApp
  \/ \E i \in 1..MaxTasks, result \in TokenResults :
       handleSignInTokenSettled(i, result) /\ UNCHANGED exceptApp
  \/ \E i \in 1..MaxTasks, result \in LedgerResults :
       handleSignInLedgerSettled(i, result) /\ UNCHANGED exceptApp
  \/ \E i \in 1..MaxTasks, response \in Responses({EmptyObject}) :
       handleSaveSettled(i, response) /\ UNCHANGED exceptApp
  \/ handleSignOut /\ UNCHANGED exceptApp
  \/ \E i \in 1..MaxTasks :
       handleSignOutSettled(i) /\ UNCHANGED exceptApp
  \/ \E cells \in AppGrids : editGrid(cells) /\ UNCHANGED exceptExport

AppGridInit ==
  /\ hotCells = BlankGrid
  /\ snapshot = <<>>
  /\ exportFile = NoExportFile
  /\ exportPc = "idle"

\* the App component under clicks, edits and the settling of its awaits
InitApp == LedgerInit /\ AppGridInit /\ AppInit /\ ZipIdle /\ SnapshotIdle /\ PresetIdle /\ ReferenceIdle /\ SignInIdle /\ AuthIdle /\ MenuIdle /\ FormulaIdle /\ StyleIdle

SpecApp == InitApp /\ [][AppNext]_vars

\* every awaited call settles in the end
SpecAppFair ==
  /\ InitApp /\ [][AppNext]_vars
  /\ WF_vars(\E i \in 1..MaxTasks, result \in TokenResults :
               handleSignInTokenSettled(i, result) /\ UNCHANGED exceptApp)
  /\ WF_vars(\E i \in 1..MaxTasks, result \in LedgerResults :
               handleSignInLedgerSettled(i, result) /\ UNCHANGED exceptApp)
  /\ WF_vars(\E i \in 1..MaxTasks, response \in Responses({EmptyObject}) :
               handleSaveSettled(i, response) /\ UNCHANGED exceptApp)

InitZip == LedgerInit /\ ExportIdle /\ AppIdle /\ ZipInit /\ SnapshotIdle /\ PresetIdle /\ ReferenceIdle /\ SignInIdle /\ AuthIdle /\ MenuIdle /\ FormulaIdle /\ StyleIdle

ZipNext ==
  \/ Tick /\ UNCHANGED exceptZip
  \/ BuildArchive /\ UNCHANGED exceptZip
  \/ BuildArchiveAgain /\ UNCHANGED exceptZip

\* the ZIP writer applied to a list of entries, twice
SpecZip == InitZip /\ [][ZipNext]_vars

InitSnapshot == LedgerInit /\ ExportIdle /\ AppIdle /\ ZipIdle /\ SnapshotInit /\ PresetIdle /\ ReferenceIdle /\ SignInIdle /\ AuthIdle /\ MenuIdle /\ FormulaIdle /\ StyleIdle

SnapshotNext == buildSnapshot /\ UNCHANGED exceptSnapshot

\* buildSnapshot applied to the values of one cell of the grid component
SpecSnapshot == InitSnapshot /\ [][SnapshotNext]_vars

InitPreset == LedgerInit /\ ExportIdle /\ AppIdle /\ ZipIdle /\ SnapshotIdle /\ PresetIdle /\ ReferenceIdle /\ SignInIdle /\ AuthIdle /\ MenuIdle /\ FormulaIdle /\ StyleIdle

PresetNext ==
  \/ mountPresetGrid /\ UNCHANGED exceptPreset
  \/ \E cell \in EditedCells, value \in EditedValues :
       editCell(cell, value) /\ UNCHANGED exceptPreset
  \/ \E prop \in ToggledProps, ranges \in Selections :
       toggleStyleProp(prop, ranges) /\ UNCHANGED exceptPreset
  \/ \E target \in {"fill", "text"}, color \in Colors, ranges \in Selections :
       applyColor(target, color, ranges) /\ UNCHANGED exceptPreset
  \/ \E nextPreset \in PresetTypes, confirmed \in BOOLEAN :
       handlePresetSelect(nextPreset, confirmed) /\ UNCHANGED exceptPreset

\* the preset menu, the style toolbar and the grid's cells
SpecPreset == InitPreset /\ [][PresetNext]_vars

InitReference == LedgerInit /\ ExportIdle /\ AppIdle /\ ZipIdle /\ SnapshotIdle /\ PresetIdle /\ ReferenceInit /\ SignInIdle /\ AuthIdle /\ MenuIdle /\ FormulaIdle /\ StyleIdle

ReferenceNext == toggleAbsoluteReference /\ UNCHANGED exceptReference

\* the absolute-reference toggle pressed again and again on one token
SpecReference == InitReference /\ [][ReferenceNext]_vars

InitSignIn == LedgerInit /\ ExportIdle /\ AppInit /\ ZipIdle /\ SnapshotIdle /\ PresetIdle /\ ReferenceIdle /\ SignInIdle /\ AuthIdle /\ MenuIdle /\ FormulaIdle /\ StyleIdle

SignInNext ==
  \/ \E i \in 1..MaxTasks, loaded \in BOOLEAN :
       loadGoogleIdentityScriptSettled(i, loaded) /\ UNCHANGED <<ledgerVars, signInVars, exceptSignIn>>
  \/ clickSaveMain /\ UNCHANGED exceptSignIn
  \/ \E result \in TokenResults :
       requestGoogleAccessTokenSettles(result) /\ UNCHANGED exceptSignIn
  \/ \E i \in 1..MaxTasks : handleSignInAfterToken(i) /\ UNCHANGED exceptSignIn
  \/ \E response \in Responses(ListPayloads) :
       findMostRecentlyModifiedLedger(response) /\ UNCHANGED <<appVars, signInVars, exceptSignIn>>
  \/ \E response \in Responses(MetadataPayloads({existingFile.id})) :
       getSpreadsheetMetadata(response) /\ UNCHANGED <<appVars, signInVars, exceptSignIn>>
  \/ \E response \in Responses(AddSheetPayloads) :
       ensureArchiveSheet(response) /\ UNCHANGED <<appVars, signInVars, exceptSignIn>>
  \/ \E response \in Responses(MetadataPayloads({"spreadsheet-created"})) :
       createMiniLedger(response) /\ UNCHANGED <<appVars, signInVars, exceptSignIn>>
  \/ \E i \in 1..MaxTasks : handleSignInAfterLedger(i) /\ UNCHANGED exceptSignIn
  \/ handleSignOut /\ UNCHANGED <<ledgerVars, signInVars, exceptSignIn>>
  \/ \E i \in 1..MaxTasks :
       handleSignOutSettled(i) /\ UNCHANGED <<ledgerVars, signInVars, exceptSignIn>>

\* sign-in from the click to the last request of findOrCreateMiniLedger
SpecSignIn == InitSignIn /\ [][SignInNext]_vars

InitAuth == LedgerInit /\ ExportIdle /\ AppIdle /\ ZipIdle /\ SnapshotIdle /\ PresetIdle /\ ReferenceIdle /\ SignInIdle /\ AuthInit /\ MenuIdle /\ FormulaIdle /\ StyleIdle

AuthNext ==
  \/ \E caller \in LoadCallers : loadGoogleIdentityScript(caller) /\ UNCHANGED exceptAuth
  \/ \E defined \in BOOLEAN : scriptLoad(defined) /\ UNCHANGED exceptAuth
  \/ scriptError /\ UNCHANGED exceptAuth
  \/ \E promise \in 1..MaxLoadCalls : scriptTimeout(promise) /\ UNCHANGED exceptAuth

\* calls of loadGoogleIdentityScript among the events of the script element
SpecAuth == InitAuth /\ [][AuthNext]_vars

InitMenu == LedgerInit /\ ExportIdle /\ AppIdle /\ ZipIdle /\ SnapshotIdle /\ PresetIdle /\ ReferenceIdle /\ SignInIdle /\ AuthIdle /\ MenuInit /\ FormulaIdle /\ StyleIdle

MenuNext ==
  \/ \E menu \in Menus : toggleMenu(menu) /\ UNCHANGED exceptMenu
  \/ \E menu \in Menus : selectOption(menu) /\ UNCHANGED exceptMenu
  \/ toggleSidebar /\ UNCHANGED exceptMenu
  \/ \E outside \in SUBSET Menus : handleClick(outside) /\ UNCHANGED exceptMenu
  \/ timePasses /\ UNCHANGED exceptMenu
  \/ \E menu \in Menus : hideTimerFires(menu) /\ UNCHANGED exceptMenu
  \/ renderPendingHide /\ UNCHANGED exceptMenu

\* the two menus under clicks, the hide timers and the renders they queue
SpecMenu == InitMenu /\ [][MenuNext]_vars

InitFormula == LedgerInit /\ ExportIdle /\ AppIdle /\ ZipIdle /\ SnapshotIdle /\ PresetIdle /\ ReferenceIdle /\ SignInIdle /\ AuthIdle /\ MenuIdle /\ FormulaInit /\ StyleIdle

FormulaNext ==
  \/ \E eventKey \in ArrowKeys \cup OtherKeys :
       handleBeforeKeyDown(eventKey) /\ UNCHANGED exceptFormula
  \/ \E row \in 0..(GRID_ROWS - 1), col \in 0..(activeColumnCount - 1) :
       handleBeforeOnCellMouseDown(<<row, col>>) /\ UNCHANGED exceptFormula
  \/ \E position \in 0..(MaxInputLength + 2) :
       clickTextarea(position) /\ UNCHANGED exceptFormula

\* keys and cell clicks while the editor of a cell is open
SpecFormula == InitFormula /\ [][FormulaNext]_vars

InitStyle == LedgerInit /\ ExportIdle /\ AppIdle /\ ZipIdle /\ SnapshotIdle /\ PresetIdle /\ ReferenceIdle /\ SignInIdle /\ AuthIdle /\ MenuIdle /\ FormulaIdle /\ StyleIdle

StyleNext ==
  \/ \E cell \in StyleCells, patch \in StylePatches :
       callSetCellStyle(cell, patch) /\ UNCHANGED exceptStyle
  \/ callClearAllStyles /\ UNCHANGED exceptStyle

\* any sequence of setCellStyle and clearAllStyles calls
SpecStyle == InitStyle /\ [][StyleNext]_vars

(***************************************************************************)
(* Claims about the ledger service                                         *)
(***************************************************************************)
AppendCalled ==
  pc \in {"append", "settled"} /\ (fetchCalls = <<>> \/ fetchCalls[1].api = "appendCells")
AppendIssued ==
  pc \in {"append", "settled"} /\ Len(fetchCalls) > 0 /\ fetchCalls[1].api = "appendCells"
RequestLabel == IF request.label.def THEN request.label.str ELSE <<>>
SentRows == fetchCalls[1].rows
LabelRowCount == IF Trim(RequestLabel) # <<>> THEN 1 ELSE 0
DataRow(r) == SentRows[4 + LabelRowCount + r]
AllEmptyObjects(row, from) ==
  \A c \in from..Len(row.values) : row.values[c] = EmptyObject

\* C1: the rows sent by appendLedgerBlock are 4 rows of empty objects, then
\* (iff the trimmed label is non-empty) one row carrying the trimmed label in
\* its first cell and empty objects elsewhere, then one row per row of cells
\* in the same order; 4 + (0 or 1) + cells.length rows in all.
C1_AppendRowsLayout ==
  AppendIssued =>
    /\ Len(SentRows) = 4 + LabelRowCount + Len(request.cells)
    /\ \A i \in 1..4 : AllEmptyObjects(SentRows[i], 1)
    /\ LabelRowCount = 1 =>
         /\ SentRows[5].values[1] =
              [userEnteredValue |-> [stringValue |-> Str(Trim(RequestLabel))]]
         /\ AllEmptyObjects(SentRows[5], 2)
    /\ \A r \in 1..Len(request.cells) :
         /\ Len(DataRow(r).values) = Len(request.cells[r])
         /\ \A c \in 1..Len(request.cells[r]) :
              DataRow(r).values[c] = toGoogleCellData(request.cells[r][c])

C1_Witness ==
  /\ AppendIssued
  /\ LabelRowCount = 1
  /\ RequestLabel # Trim(RequestLabel)
  /\ Len(request.cells) = 2
  /\ request.cells[1] # request.cells[2]

\* C2 as claimed: every row of the append payload, data rows included, has
\* exactly max(1, columnCount) cells.
C2_EveryRowHasColumnCountCells ==
  AppendIssued =>
    \A i \in 1..Len(SentRows) :
      Len(SentRows[i].values) = Max(1, request.columnCount)

\* C2 amended: the gap rows and the label row have exactly
\* max(1, columnCount) cells; each data row has exactly as many cells as the
\* row of cells it is made from.
C2_BlankRowsHaveColumnCountCells ==
  AppendIssued =>
    /\ \A i \in 1..(4 + LabelRowCount) :
         Len(SentRows[i].values) = Max(1, request.columnCount)
    /\ \A r \in 1..Len(request.cells) :
         Len(DataRow(r).values) = Len(request.cells[r])

C2_Witness ==
  /\ AppendIssued
  /\ request.columnCount < 1
  /\ LabelRowCount = 1
  /\ \E r \in 1..Len(request.cells) :
       Len(request.cells[r]) # Max(1, request.columnCount)

NothingToAppend == Trim(RequestLabel) = <<>> /\ request.cells = <<>>

\* C3 as claimed: with a blank label and no data row appendLedgerBlock makes
\* no network call and resolves.
C3_NoCallWhenNothingToAppend ==
  (AppendCalled /\ NothingToAppend) =>
    /\ fetchCalls = <<>>
    /\ outcome.state = "fulfilled"

\* C3 amended: with a blank label and no data row appendLedgerBlock still
\* issues exactly one appendCells request, carrying the 4 gap rows, and it
\* resolves only if that request succeeds.
C3_GapRowsSentWhenNothingToAppend ==
  (AppendCalled /\ NothingToAppend) =>
    /\ Len(fetchCalls) = 1
    /\ fetchCalls[1].api = "appendCells"
    /\ Len(SentRows) = 4
    /\ \A i \in 1..4 : AllEmptyObjects(SentRows[i], 1)
    /\ pc = "append" => outcome.state = "pending"
    /\ pc = "settled" =>
         /\ Len(fetchResponses) = 1
         /\ outcome.state = "fulfilled" <=>
              (fetchResponses[1].network = "ok" /\ ResponseOk(fetchResponses[1])
                 /\ fetchResponses[1].parses)

C3_Witness ==
  /\ AppendIssued
  /\ NothingToAppend
  /\ request.label = Defined(<<" ">>)
  /\ pc = "settled"
  /\ outcome.state = "fulfilled"

HasValue(value) ==
  \/ value.kind = "number" /\ value.nf = "finite"
  \/ value.kind = "boolean"
  \/ value.kind = "string" /\ \E i \in 1..Len(value.str) : value.str[i] \notin Whitespace
HasFormula(cell) == cell.formula.def /\ cell.formula.str # <<>>

\* C4: in every data cell of the append payload, userEnteredValue is present
\* iff displayValue is a finite number (numberValue), a boolean (boolValue) or
\* a string that is not whitespace-only (stringValue, untrimmed); note is
\* present iff the cell has a formula and is 'Formula: ' plus the raw formula;
\* a cell with neither is the empty object.
C4_CellDataRule ==
  AppendIssued =>
    \A r \in 1..Len(request.cells) : \A c \in 1..Len(request.cells[r]) :
      LET cell == request.cells[r][c]
          value == cell.displayValue
          data == DataRow(r).values[c]
      IN  /\ DOMAIN data \subseteq {"userEnteredValue", "note"}
          /\ "userEnteredValue" \in DOMAIN data <=> HasValue(value)
          /\ HasValue(value) =>
               data["userEnteredValue"] =
                 CASE value.kind = "number" -> [numberValue |-> value.num]
                   [] value.kind = "boolean" -> [boolValue |-> value.bool]
                   [] value.kind = "string" -> [stringValue |-> Str(value.str)]
          /\ "note" \in DOMAIN data <=> HasFormula(cell)
          /\ HasFormula(cell) => data["note"] = "Formula: " \o Str(cell.formula.str)
          /\ (~HasValue(value) /\ ~HasFormula(cell)) => data = EmptyObject

C4_Witness ==
  /\ AppendIssued
  /\ Len(request.cells) = 1 /\ Len(request.cells[1]) = 1
  /\ request.cells[1][1].displayValue = StringValue(<<" ", "a">>)
  /\ request.cells[1][1].formula = Defined(<<" ", "=", "A", "1">>)
  /\ DOMAIN DataRow(1).values[1] = {"userEnteredValue", "note"}

GenericMessage(status) == "Google API request failed (" \o ToString(status) \o ")."

\* C5: a non-2xx response to any request of appendLedgerBlock or
\* findOrCreateMiniLedger rejects the call, with the body's error.message when
\* present and the generic message with the status code otherwise; no request
\* follows it and the call never resolves.
C5_NonOkResponseRejects ==
  \A i \in 1..Len(fetchResponses) :
    LET response == fetchResponses[i]
    IN  (response.network = "ok" /\ ~(response.status \in 200..299)) =>
          /\ i = Len(fetchResponses)
          /\ Len(fetchCalls) = i
          /\ pc = "settled"
          /\ outcome.state = "rejected"
          /\ outcome.message =
               IF response.parses /\ response.hasMessage
                 THEN response.message
                 ELSE GenericMessage(response.status)

C5_Witness ==
  /\ Len(fetchResponses) = 3
  /\ fetchCalls[3].api = "addSheet"
  /\ fetchResponses[3].status = 403
  /\ fetchResponses[3].hasMessage
  /\ outcome = Rejected("Permission denied.")

ResponseSucceeded(i) ==
  /\ Len(fetchResponses) >= i
  /\ fetchResponses[i].network = "ok"
  /\ fetchResponses[i].status \in 200..299
  /\ fetchResponses[i].parses
Issued(api) == \E i \in 1..Len(fetchCalls) : fetchCalls[i].api = api
Apis == [i \in 1..Len(fetchCalls) |-> fetchCalls[i].api]
FindCalled == Len(fetchCalls) > 0 /\ fetchCalls[1].api = "files.list"
ListedFiles ==
  IF fetchResponses[1].data.hasFiles THEN fetchResponses[1].data.files ELSE <<>>
ArchiveSheetIds(sheets) ==
  {sheets[i].sheetId : i \in {j \in 1..Len(sheets) : sheets[j].title = "Archive"}}

\* C6: when the listing returns a file, the first listed file is used, no
\* create request is ever issued, and addSheet is issued iff the metadata has
\* no sheet titled 'Archive': the requests are list, metadata (Archive
\* exists) or list, metadata, addSheet (it does not), and the target's sheetId
\* is the existing or the added Archive sheet's id.
C6_ReuseExistingSpreadsheet ==
  (FindCalled /\ ResponseSucceeded(1) /\ Len(ListedFiles) > 0) =>
    /\ ~Issued("spreadsheets.create")
    /\ Len(fetchCalls) >= 2
    /\ fetchCalls[2].api = "spreadsheets.get"
    /\ fetchCalls[2].spreadsheetId = ListedFiles[1].id
    /\ ~ResponseSucceeded(2) => Apis = <<"files.list", "spreadsheets.get">>
    /\ ResponseSucceeded(2) =>
         LET sheets == fetchResponses[2].data.sheets
         IN  IF ArchiveSheetIds(sheets) # {}
               THEN /\ Apis = <<"files.list", "spreadsheets.get">>
                    /\ outcome.state = "fulfilled"
                    /\ outcome.value.sheetId \in ArchiveSheetIds(sheets)
                    /\ outcome.value.spreadsheetId = fetchResponses[2].data.spreadsheetId
               ELSE /\ Apis = <<"files.list", "spreadsheets.get", "addSheet">>
                    /\ fetchCalls[3].spreadsheetId = fetchResponses[2].data.spreadsheetId
                    /\ outcome.state = "fulfilled" =>
                         /\ ResponseSucceeded(3)
                         /\ outcome.value.sheetId =
                              fetchResponses[3].data.replies[1].properties.sheetId

C6_Witness ==
  /\ FindCalled /\ ResponseSucceeded(1)
  /\ Len(ListedFiles) = 2 /\ ListedFiles[1] # ListedFiles[2]
  /\ Len(fetchCalls) = 3
  /\ pc = "settled"
  /\ outcome.state = "fulfilled"
  /\ outcome.value.sheetId = 5

\* C7: when the listing returns no file, exactly one create POST follows the
\* listing, no metadata or addSheet request is issued, and the call returns
\* the created spreadsheet's id with the id and title of its 'Archive' sheet,
\* or rejects when the created spreadsheet has no such sheet.
C7_CreateWhenNoneListed ==
  (FindCalled /\ ResponseSucceeded(1) /\ Len(ListedFiles) = 0) =>
    /\ Apis = <<"files.list", "spreadsheets.create">>
    /\ fetchCalls[2].method = "POST"
    /\ ResponseSucceeded(2) =>
         LET created == fetchResponses[2].data
         IN  IF ArchiveSheetIds(created.sheets) # {}
               THEN /\ outcome.state = "fulfilled"
                    /\ outcome.value.spreadsheetId = created.spreadsheetId
                    /\ outcome.value.sheetId \in ArchiveSheetIds(created.sheets)
                    /\ outcome.value.sheetTitle = "Archive"
               ELSE outcome.state = "rejected"
    /\ outcome.state = "fulfilled" => ResponseSucceeded(2)

C7_Witness ==
  /\ FindCalled /\ ResponseSucceeded(1) /\ Len(ListedFiles) = 0
  /\ pc = "settled"
  /\ outcome.state = "fulfilled"
  /\ outcome.value.sheetId = 7
  /\ Len(fetchResponses[2].data.sheets) = 2

C7_RejectWitness ==
  /\ FindCalled /\ ResponseSucceeded(1) /\ Len(ListedFiles) = 0
  /\ ResponseSucceeded(2)
  /\ outcome = Rejected("Created spreadsheet is missing Archive sheet.")

(***************************************************************************)
(* Claims about the export builders                                        *)
(***************************************************************************)
IsBlankRow(row) ==
  \A c \in 1..Len(row) :
    row[c].displayValue = NullValue /\ (~row[c].formula.def \/ row[c].formula.str = <<>>)
BlankRows(k, width) == [i \in 1..k |-> [c \in 1..width |-> BlankCell]]
Exported == exportPc = "exported"

\* C8: trailing all-blank rows are stripped before export: the trimmed block
\* is a prefix of the grid whose last row (if any) has a display value or a
\* formula, only blank rows are dropped (interior blank rows stay), an
\* all-blank grid trims to the empty block, and the grid followed by k more
\* blank rows trims, and exports, to the same result.
C8_TrailingBlankRowsStripped ==
  Exported =>
    /\ Len(snapshot) <= Len(hotCells)
    /\ snapshot = SubSeq(hotCells, 1, Len(snapshot))
    /\ snapshot # <<>> => ~IsBlankRow(snapshot[Len(snapshot)])
    /\ \A r \in (Len(snapshot) + 1)..Len(hotCells) : IsBlankRow(hotCells[r])
    /\ (\A r \in 1..Len(hotCells) : IsBlankRow(hotCells[r])) => snapshot = <<>>
    /\ \A k \in 0..MaxPad : \A width \in 0..MaxCols :
         LET padded == hotCells \o BlankRows(k, width)
         IN  /\ trimTrailingEmptyRows(padded) = snapshot
             /\ buildExportFile(trimTrailingEmptyRows(padded), exportFile.format) = exportFile

C8_Witness ==
  /\ Exported
  /\ Len(hotCells) = 4
  /\ Len(snapshot) = 3
  /\ IsBlankRow(snapshot[2])
  /\ exportFile.format = "csv"
  /\ exportFile.document = BOM \o ",5\r\n,\r\n5,"

\* C10: a display value that is NaN, Infinity or -Infinity is exported as a
\* blank cell by every target: an empty field in delimited text, no <c>
\* element in the OOXML row, an empty self-closed cell in ODF and no
\* userEnteredValue in the ledger payload.
C10_NonFiniteIsBlankInEveryTarget ==
  \A r \in 1..Len(snapshot) : \A c \in 1..Len(snapshot[r]) :
    LET cell == snapshot[r][c]
    IN  (Exported /\ cell.displayValue.kind = "number"
           /\ cell.displayValue.nf # "finite" /\ ~cell.formula.def) =>
          /\ encodeDelimitedCell(resolveSnapshotValue(cell), ",") = ""
          /\ encodeDelimitedCell(resolveSnapshotValue(cell), "\t") = ""
          /\ buildXlsxCellXml(cell, r - 1, c - 1) = ""
          /\ buildOdsCellXml(cell) = "<table:table-cell/>"
          /\ "userEnteredValue" \notin DOMAIN toGoogleCellData(cell)
          /\ (Len(snapshot) = 1 /\ Len(snapshot[1]) = 1) =>
               exportFile = buildExportFile(<<(<<BlankCell>>)>>, exportFile.format)


(***************************************************************************)
(* Claims about the App component                                          *)
(***************************************************************************)
SavesInFlight == Cardinality({i \in 1..Len(tasks) : tasks[i].kind = "save"})

\* C9: no two ledger append requests are in flight at the same time: over
\* every sequence of clicks on the save button, sign-ins and sign-outs, an
\* appendLedgerBlock call is started only when no earlier one is pending.
C9_OneAppendInFlight ==
  /\ SavesInFlight <= 1
  /\ SavesInFlight = 1 => isSaving

C9_Witness ==
  /\ SavesInFlight = 1
  /\ appendsStarted = 2
  /\ \E i \in 1..Len(tasks) : tasks[i].kind = "signOut"


\* C11: in ODF export a cell with both a formula and a display value is
\* emitted from its display value, never as a cell holding the formula text.
C11_OdsCellFromDisplayValue ==
  (Exported /\ exportFile.format = "ods") =>
    \A r \in 1..Len(snapshot) : \A c \in 1..Len(snapshot[r]) :
      LET cell == snapshot[r][c]
          valueOnly == CellSnapshot(cell.displayValue, Undefined)
      IN  (Truthy(cell.formula) /\ cell.displayValue # NullValue) =>
            /\ buildOdsCellXml(cell) = buildOdsCellXml(valueOnly)
            /\ (Len(snapshot) = 1 /\ Len(snapshot[1]) = 1) =>
                 exportFile.document = buildOdsContentXml(<<(<<valueOnly>>)>>)

\* how many times pattern occurs in text
Occurrences(text, pattern) ==
  Cardinality({i \in 1..(Len(text) - Len(pattern) + 1) :
                 SubSeq(text, i, i + Len(pattern) - 1) = pattern})

\* the formula as the worksheet writes it: trimmed, one leading = removed
FormulaBody(cell) ==
  LET trimmed == Trim(cell.formula.str)
  IN  IF trimmed # <<>> /\ Head(trimmed) = "=" THEN Tail(trimmed) ELSE trimmed

\* a cell the worksheet has something to write for: a formula with a body,
\* or else a finite number, a boolean or a string
XlsxNonBlank(cell) ==
  IF Truthy(cell.formula)
    THEN FormulaBody(cell) # <<>>
    ELSE \/ cell.displayValue.kind \in {"boolean", "string"}
         \/ cell.displayValue.kind = "number" /\ IsFinite(cell.displayValue)

XlsxNonBlankCells ==
  {rc \in (1..Len(snapshot)) \X (1..MaxCols) :
     rc[2] <= Len(snapshot[rc[1]]) /\ XlsxNonBlank(snapshot[rc[1]][rc[2]])}
XlsxRowsWithCells == {r \in 1..Len(snapshot) : \E rc \in XlsxNonBlankCells : rc[1] = r}
EmptyRowElement(r) == "<row r=\"" \o ToString(r) \o "\"/>"
ExportedAs(format) == Exported /\ exportFile.format = format

CellRef(r, c) == SubSeq("ABCDEFGHIJKLMNOPQRSTUVWXYZ", c, c) \o ToString(r)
CellStart(r, c) == "<c r=\"" \o CellRef(r, c) \o "\""
FormulaElement(r, c, body) ==
  CellStart(r, c) \o "><f>" \o escapeXml(body) \o "</f></c>"
\* the formula as given, one leading = removed
WithoutLeadingEquals(formula) ==
  IF formula # <<>> /\ Head(formula) = "=" THEN Tail(formula) ELSE formula
FormulaPositions ==
  {rc \in (1..Len(snapshot)) \X (1..MaxCols) :
     rc[2] <= Len(snapshot[rc[1]]) /\ Truthy(snapshot[rc[1]][rc[2]].formula)}

\* C13 as claimed: every cell with a formula is written as a <c> holding
\* only <f>, whose text is the (trimmed) formula with one leading = removed,
\* under the reference column letter(s) + 1-based row number.
C13_EveryFormulaCellHoldsF ==
  ExportedAs("xlsx") =>
    \A rc \in FormulaPositions :
      LET cell == snapshot[rc[1]][rc[2]]
      IN  /\ Occurrences(exportFile.document, CellStart(rc[1], rc[2])) = 1
          /\ Occurrences(exportFile.document,
                         FormulaElement(rc[1], rc[2],
                                        WithoutLeadingEquals(Trim(cell.formula.str)))) = 1

\* C13 amended: a cell whose formula, trimmed and with one leading =
\* removed, has a body left is written as a <c> holding only <f> with that
\* body, whatever its display value; a cell whose formula has no body left
\* (it is just "=") is not written at all.
C13_FormulaCellsWithBodyHoldF ==
  ExportedAs("xlsx") =>
    \A rc \in FormulaPositions :
      LET cell == snapshot[rc[1]][rc[2]]
          body == WithoutLeadingEquals(Trim(cell.formula.str))
      IN  IF body = <<>>
            THEN Occurrences(exportFile.document, CellStart(rc[1], rc[2])) = 0
            ELSE /\ Occurrences(exportFile.document, CellStart(rc[1], rc[2])) = 1
                 /\ Occurrences(exportFile.document,
                                FormulaElement(rc[1], rc[2], body)) = 1

C13_Witness ==
  /\ ExportedAs("xlsx")
  /\ snapshot = <<(<<BlankCell, CellSnapshot(NumberValue(5), Defined(<<"=", "A", "1">>))>>)>>
  /\ Occurrences(exportFile.document, "<row r=\"1\"><c r=\"B1\"><f>A1</f></c></row>") = 1

C13_EqualsOnlyWitness ==
  /\ ExportedAs("xlsx")
  /\ snapshot = <<(<<BlankCell, CellSnapshot(BooleanValue(TRUE), Defined(<<"=">>))>>)>>
  /\ Occurrences(exportFile.document, "<row r=\"1\"/>") = 1

Delimited == {"csv", "tsv"}
\* text inside double quotes, every double quote of it doubled
Quoted(text) == "\"" \o Str(ReplaceAll(text, "\"", "\"\"")) \o "\""
\* text as a field: as it is, or quoted
FieldsOf(text) == {Str(text), Quoted(text)}
SingleCell == Len(snapshot) = 1 /\ Len(snapshot[1]) = 1
FieldOfDocument == SubSeq(exportFile.document, Len(BOM) + 1, Len(exportFile.document))

\* C14: in delimited text a cell with a formula is written as its formula
\* text, whatever its display value; a cell without one is written from its
\* display value: a (finite) number or a boolean as its unquoted literal,
\* null as an empty field.
C14_DelimitedPrefersFormula ==
  (Exported /\ exportFile.format \in Delimited /\ SingleCell) =>
    LET cell == snapshot[1][1]
        value == cell.displayValue
    IN  /\ SubSeq(exportFile.document, 1, Len(BOM)) = BOM
        /\ Truthy(cell.formula) => FieldOfDocument \in FieldsOf(cell.formula.str)
        /\ (~Truthy(cell.formula) /\ value.kind = "null") => FieldOfDocument = ""
        /\ (~Truthy(cell.formula) /\ value.kind = "boolean") =>
             FieldOfDocument = (IF value.bool THEN "true" ELSE "false")
        /\ (~Truthy(cell.formula) /\ value.kind = "number" /\ IsFinite(value)) =>
             FieldOfDocument = ToString(value.num)
        /\ (~Truthy(cell.formula) /\ value.kind = "string") =>
             FieldOfDocument \in FieldsOf(value.str)

C14_Witness ==
  /\ ExportedAs("tsv")
  /\ snapshot = <<(<<CellSnapshot(NumberValue(-3), Defined(<<"=", "A", "1">>))>>)>>
  /\ exportFile.document = BOM \o "=A1"

DelimiterOf(format) == IF format = "csv" THEN "," ELSE "\t"

\* the number of fields of each row of a delimited text, read from position
\* i on: separators inside double quotes do not count
RECURSIVE FieldCounts(_, _, _, _, _)
FieldCounts(text, delimiter, i, inQuotes, counts) ==
  IF i > Len(text) THEN counts
  ELSE IF SubSeq(text, i, i) = "\""
    THEN FieldCounts(text, delimiter, i + 1, ~inQuotes, counts)
  ELSE IF ~inQuotes /\ SubSeq(text, i, i) = delimiter
    THEN FieldCounts(text, delimiter, i + 1, inQuotes,
                     [counts EXCEPT ![Len(counts)] = @ + 1])
  ELSE IF ~inQuotes /\ i < Len(text) /\ SubSeq(text, i, i + 1) = "\r\n"
    THEN FieldCounts(text, delimiter, i + 2, inQuotes, Append(counts, 1))
  ELSE FieldCounts(text, delimiter, i + 1, inQuotes, counts)

\* the rule of the claim: when a text is written in quotes
MustBeQuoted(text, delimiter) ==
  \/ \E i \in 1..Len(text) : text[i] \in {"\"", "\n", "\r", delimiter}
  \/ text # Trim(text)

\* C15: in delimited text a string field is in double quotes, its double
\* quotes doubled, exactly when it holds a double quote, a newline, a
\* carriage return or the delimiter, or differs from its trim, and is
\* written unchanged otherwise; outside quoted fields the text has one
\* CRLF-separated row per row of the grid and one field per cell of the row.
C15_QuotingAndShape ==
  (Exported /\ exportFile.format \in Delimited) =>
    LET delimiter == DelimiterOf(exportFile.format)
    IN  /\ snapshot = <<>> => FieldOfDocument = ""
        /\ snapshot # <<>> =>
             FieldCounts(FieldOfDocument, delimiter, 1, FALSE, <<1>>)
               = [r \in 1..Len(snapshot) |-> Len(snapshot[r])]
        /\ SingleCell =>
             LET cell == snapshot[1][1]
                 text == IF Truthy(cell.formula) THEN cell.formula.str
                         ELSE cell.displayValue.str
             IN  (Truthy(cell.formula) \/ cell.displayValue.kind = "string") =>
                   FieldOfDocument = (IF MustBeQuoted(text, delimiter)
                                        THEN Quoted(text) ELSE Str(text))

C15_Witness ==
  /\ ExportedAs("csv")
  /\ snapshot = TextGrid
  /\ exportFile.document = BOM \o "\"a,\",a\ta\r\n\"a\r\na\",\"\"\"\""

C15_TrimWitness ==
  /\ ExportedAs("tsv")
  /\ SingleCell
  /\ snapshot[1][1] = CellSnapshot(StringValue(<<" ", "a">>), Undefined)
  /\ exportFile.document = BOM \o "\" a\""

\* where pattern starts in text
Positions(text, pattern) ==
  {i \in 1..(Len(text) - Len(pattern) + 1) :
     SubSeq(text, i, i + Len(pattern) - 1) = pattern}
OdsRowStarts == Positions(exportFile.document, "<table:table-row>")
OdsCellStarts == Positions(exportFile.document, "<table:table-cell")
\* the cell elements between the row element starting at p and the next one
OdsCellsOfRow(p) ==
  {c \in OdsCellStarts : c > p /\ \A q \in OdsRowStarts : q > p => c < q}
OdsRowNumber(p) == Cardinality({q \in OdsRowStarts : q <= p})

\* C16: the ODF content holds one table-row element per row of the grid it
\* is built from and, in each, one table-cell element per cell of that row,
\* blank or not; the first entry of the archive is named mimetype.
C16_OdsKeepsEveryRowAndCell ==
  ExportedAs("ods") =>
    /\ Cardinality(OdsRowStarts) = Len(snapshot)
    /\ \A p \in OdsRowStarts :
         Cardinality(OdsCellsOfRow(p)) = Len(snapshot[OdsRowNumber(p)])
    /\ exportFile.parts[1] = "mimetype"

C16_Witness ==
  /\ ExportedAs("ods")
  /\ Len(snapshot) = 3
  /\ snapshot[1] = <<BlankCell, CellSnapshot(NumberValue(5), Undefined)>>
  /\ IsBlankRow(snapshot[2])
  /\ Cardinality(OdsCellStarts) = 6


(***************************************************************************)
(* Claims about the ZIP archive writer                                     *)
(***************************************************************************)
\* the numbers a reader finds at a 0-based offset of the bytes
ReadUint16(bytes, at) == bytes[at + 1] + 256 * bytes[at + 2]
ReadUint32(bytes, at) ==
  bytes[at + 1] + 256 * bytes[at + 2] + 65536 * bytes[at + 3] + 16777216 * bytes[at + 4]
HasSignature(bytes, at, signature) ==
  at + 4 <= Len(bytes) /\ SubSeq(bytes, at + 1, at + 4) = signature
LocalSignature == <<80, 75, 3, 4>>
CentralSignature == <<80, 75, 1, 2>>
EndSignature == <<80, 75, 5, 6>>

\* the offsets of the local file headers a reader walks through from at
RECURSIVE LocalHeaders(_, _)
LocalHeaders(bytes, at) ==
  IF HasSignature(bytes, at, LocalSignature)
    THEN <<at>> \o LocalHeaders(bytes, at + 30 + ReadUint16(bytes, at + 26)
                                         + ReadUint32(bytes, at + 18))
    ELSE <<>>
\* the offsets of the central-directory records a reader walks through
RECURSIVE CentralHeaders(_, _)
CentralHeaders(bytes, at) ==
  IF HasSignature(bytes, at, CentralSignature)
    THEN <<at>> \o CentralHeaders(bytes, at + 46 + ReadUint16(bytes, at + 28))
    ELSE <<>>
RECURSIVE Sum(_)
Sum(numbers) == IF numbers = <<>> THEN 0 ELSE Head(numbers) + Sum(Tail(numbers))
NameLength(entry) == Len(encodeUtf8(entry.name))
EndOfCentralDirectory == Len(archive) - 22
Built == zipPc \in {"built", "rebuilt"}

\* C17: in the archive the end-of-central-directory record's entry count is
\* the number of local file headers, its offset of the central directory is
\* the length of the local sections (30 + name length + data length each)
\* before it, and its size of the central directory is the sum of
\* 46 + name length over the entries.
C17_EndRecordMatchesArchive ==
  Built =>
    LET locals == LocalHeaders(archive, 0)
        localBytes == Sum([i \in 1..Len(zipEntries) |->
                             30 + NameLength(zipEntries[i]) + Len(zipEntries[i].data)])
        centralBytes == Sum([i \in 1..Len(zipEntries) |-> 46 + NameLength(zipEntries[i])])
        centrals == CentralHeaders(archive, localBytes)
    IN  /\ HasSignature(archive, EndOfCentralDirectory, EndSignature)
        /\ Len(locals) = Len(zipEntries)
        /\ ReadUint16(archive, EndOfCentralDirectory + 8) = Len(locals)
        /\ ReadUint16(archive, EndOfCentralDirectory + 10) = Len(locals)
        /\ ReadUint32(archive, EndOfCentralDirectory + 16) = localBytes
        /\ Len(centrals) = Len(zipEntries)
        /\ ReadUint32(archive, EndOfCentralDirectory + 12) = centralBytes
        /\ localBytes + centralBytes = EndOfCentralDirectory

C17_Witness ==
  /\ Built
  /\ Len(zipEntries) = 2
  /\ zipEntries[1] = ZipEntry(<<233>>, <<80, 255>>)
  /\ ReadUint32(archive, EndOfCentralDirectory + 16) # ReadUint32(archive, EndOfCentralDirectory + 12)
  /\ SubSeq(archive, 15, 18) = <<38, 160, 96, 214>>


LocalSectionLength(entry) == 30 + NameLength(entry) + Len(entry.data)

\* C22: the i-th central-directory record mirrors the i-th local entry: the
\* same CRC-32, the same size as compressed and uncompressed size, the same
\* name bytes, and as local-header offset the position where that entry's
\* local file header starts, the total length of the local sections before
\* it (0 for the first); both sections list the entries in input order.
C22_CentralDirectoryMirrorsLocalEntries ==
  Built =>
    LET locals == LocalHeaders(archive, 0)
        centrals == CentralHeaders(archive,
                      Sum([i \in 1..Len(zipEntries) |-> LocalSectionLength(zipEntries[i])]))
    IN  /\ Len(locals) = Len(zipEntries)
        /\ Len(centrals) = Len(zipEntries)
        /\ \A i \in 1..Len(zipEntries) :
             LET entry == zipEntries[i]
                 name == encodeUtf8(entry.name)
                 size == Len(entry.data)
                 l == locals[i]
                 c == centrals[i]
             IN  /\ l = Sum([j \in 1..(i - 1) |-> LocalSectionLength(zipEntries[j])])
                 /\ ReadUint32(archive, c + 42) = l
                 /\ SubSeq(archive, c + 17, c + 20) = SubSeq(archive, l + 15, l + 18)
                 /\ ReadUint32(archive, l + 18) = size
                 /\ ReadUint32(archive, l + 22) = size
                 /\ ReadUint32(archive, c + 20) = size
                 /\ ReadUint32(archive, c + 24) = size
                 /\ ReadUint16(archive, l + 26) = Len(name)
                 /\ ReadUint16(archive, c + 28) = Len(name)
                 /\ SubSeq(archive, l + 31, l + 30 + Len(name)) = name
                 /\ SubSeq(archive, c + 47, c + 46 + Len(name)) = name
                 /\ SubSeq(archive, l + 31 + Len(name), l + 30 + Len(name) + size) = entry.data

\* two entries of different names and data; the second record points past
\* the first local section
C22_Witness ==
  /\ Built
  /\ Len(zipEntries) = 2
  /\ zipEntries[1] = ZipEntry(<<97, 47, 98>>, <<80, 255>>)
  /\ zipEntries[2] = ZipEntry(<<233>>, <<0>>)
  /\ ReadUint32(archive, CentralHeaders(archive, 68)[2] + 42) = 35


\* C18: the archive builder is pure: built twice of the same entries it
\* returns the same bytes, whenever the two builds take place.
C18_RebuildIsByteIdentical ==
  zipPc = "rebuilt" => rebuilt = archive


(***************************************************************************)
(* Claims about lib/grid.ts                                                *)
(***************************************************************************)
WhitespaceOnly(text) == \A i \in 1..Len(text) : text[i] \in Whitespace
SnapshotBuilt == snapshotPc = "built"

\* C19: normalizeDisplayValue returns null exactly for null, undefined and
\* the empty or whitespace-only string; it returns a number or a boolean
\* unchanged (0 and false included) and a non-blank string as given,
\* untrimmed.
C19_NormalizeDisplayValue ==
  SnapshotBuilt =>
    LET result == cellSnapshot.displayValue
    IN  /\ result = NullValue <=>
             \/ displayValue.kind \in {"null", "undefined"}
             \/ displayValue.kind = "string" /\ WhitespaceOnly(displayValue.str)
        /\ displayValue.kind \in {"number", "boolean"} => result = displayValue
        /\ (displayValue.kind = "string" /\ ~WhitespaceOnly(displayValue.str)) =>
             result = displayValue

C19_Witness ==
  /\ SnapshotBuilt
  /\ displayValue = StringValue(<<" ", "a", " ">>)
  /\ cellSnapshot.displayValue = StringValue(<<" ", "a", " ">>)
  /\ cellSnapshot.formula = Defined(<<" ", "=", "A", "1">>)

C19_ZeroWitness ==
  /\ SnapshotBuilt
  /\ displayValue = NumberValue(0)
  /\ cellSnapshot.displayValue = NumberValue(0)


(***************************************************************************)
(* Claims about presets and the cell style store                           *)
(***************************************************************************)
PresetLoadWentAhead ==
  /\ presetCall'.calls = presetCall.calls + 1
  /\ (~presetCall'.hasCurrentData \/ presetCall'.confirmed)

\* C20: every call of handlePresetSelect that goes ahead (the grid had no
\* content, or the replacement was confirmed) leaves, in that one step, the
\* style store empty, the selected preset, the grid data and the label those of
\* the new preset, and the grid epoch one higher than before.
C20_PresetLoadClearsStylesAndReplaces ==
  [][PresetLoadWentAhead =>
       /\ DOMAIN store' = {}
       /\ selectedPreset' = presetCall'.nextPreset
       /\ gridData' = buildPresetGrid(presetCall'.nextPreset)
       /\ label' = buildDefaultLabel(presetCall'.nextPreset)
       /\ gridEpoch' = gridEpoch + 1]_vars

\* a confirmed load of the T-account preset over a styled grid with content
C20_Witness ==
  /\ presetCall.styled
  /\ presetCall.hasCurrentData
  /\ presetCall.confirmed
  /\ presetCall.nextPreset = "t_account"
  /\ DOMAIN store = {}
  /\ selectedPreset = "t_account"
  /\ gridData[<<11, 1>>].str = Chars("=IF(COUNTA(B5:B11)+COUNTA(C5:C11)>0,IF(SUM(B5:B11)-SUM(C5:C11)>=0,SUM(B5:B11)-SUM(C5:C11),\"\"),\"\")")
  /\ gridEpoch = 2

(***************************************************************************)
(* Claims about the absolute-reference toggle                              *)
(***************************************************************************)
RECURSIVE Only(_, _)
Only(text, chars) ==
  IF Len(text) = 0 THEN ""
  ELSE (IF \E i \in 1..Len(chars) : CharAt(text, 1) = CharAt(chars, i)
          THEN CharAt(text, 1) ELSE "")
       \o Only(SubSeq(text, 2, Len(text)), chars)

ModeCycle == <<"relative", "absolute", "row", "column">>
\* the mode an endpoint is written in, read off its dollar signs
ModeOfText(endpoint) ==
  LET colAbsolute == CharAt(endpoint, 1) = "$"
      rowAbsolute == \E i \in 2..Len(endpoint) : CharAt(endpoint, i) = "$"
  IN IF colAbsolute /\ rowAbsolute THEN "absolute"
     ELSE IF rowAbsolute THEN "row"
     ELSE IF colAbsolute THEN "column"
     ELSE "relative"
ModeAfter(mode, n) ==
  ModeCycle[(((CHOOSE i \in 1..4 : ModeCycle[i] = mode) - 1 + n) % 4) + 1]
\* an endpoint rewritten in a mode, its column letters upper-cased
EndpointIn(endpoint, mode) ==
  (IF mode \in {"absolute", "column"} THEN "$" ELSE "")
    \o toUpperCase(Only(endpoint, LowerCase \o UpperCase))
    \o (IF mode \in {"absolute", "row"} THEN "$" ELSE "")
    \o Only(endpoint, "0123456789")
Endpoints(token) == split(token, ":")
Toggled == cycles >= 1 /\ A1_REFERENCE_TOKEN_RE(referenceToken)

\* C21 as stated: four applications of cycleAbsoluteReferenceToken to a valid
\* token or range return the original token with its column letters upper-cased.
C21_FourTogglesReturnTheToken ==
  (cycles = 4 /\ A1_REFERENCE_TOKEN_RE(referenceToken))
    => currentReference = Some(toUpperCase(referenceToken))

\* C21 amended: after n applications to a valid token or range every endpoint
\* is written, column letters upper-cased, in the mode n steps after the first
\* endpoint's mode in relative -> absolute -> row -> column -> relative; so four
\* applications return the upper-cased token with every endpoint in the first
\* endpoint's mode, which is the original token when the endpoints share a mode.
C21_EndpointsFollowTheFirstEndpoint ==
  Toggled =>
    /\ currentReference =
         Some(Join([i \in DOMAIN Endpoints(referenceToken) |->
                      EndpointIn(Endpoints(referenceToken)[i],
                                 ModeAfter(ModeOfText(Endpoints(referenceToken)[1]), cycles))],
                   ":"))
    /\ (cycles = 4 /\ \A i \in DOMAIN Endpoints(referenceToken) :
                        ModeOfText(Endpoints(referenceToken)[i])
                          = ModeOfText(Endpoints(referenceToken)[1]))
         => currentReference = Some(toUpperCase(referenceToken))

\* a range of a column-absolute and a relative endpoint, toggled four times
C21_Witness ==
  /\ cycles = 4
  /\ referenceToken = "$aB20:c3"
  /\ currentReference = Some("$AB20:$C3")

\* a single reference toggled once, twice and four times
C21_SingleWitness ==
  /\ referenceToken = "a1"
  /\ \/ cycles = 1 /\ currentReference = Some("$A$1")
     \/ cycles = 2 /\ currentReference = Some("A$1")

(***************************************************************************)
(* Claims about sign-in, sign-out and the busy flags                       *)
(***************************************************************************)
\* C23: in every reachable state of the app accessToken is null exactly when
\* ledgerTarget is null.
C23_TokenAndLedgerTogether == (accessToken = "") <=> (ledgerTarget = NoTarget)

\* signed out after having been connected, a second sign-in under way
C23_Witness ==
  /\ statusMessage = "Signed out."
  /\ accessToken = ""
  /\ ledgerTarget = NoTarget
  /\ isSigningIn
  /\ \E i \in 1..Len(tasks) : tasks[i].kind = "signIn" /\ tasks[i].at = "ledger"

\* connected, with a sign-out waiting for the revoke
C23_ConnectedWitness ==
  /\ accessToken \in Tokens
  /\ ledgerTarget # NoTarget
  /\ \E i \in 1..Len(tasks) : tasks[i].kind = "signOut"

SignInFailedAtToken == tokenRequest.state = "rejected" /\ tokenRequest' = NoTokenRequest
SignInFailedAtLedger == pc = "settled" /\ outcome.state = "rejected" /\ pc' = "idle"
RequestIssued == Len(fetchCalls') > Len(fetchCalls)
ResponseFailed ==
  /\ Len(fetchResponses') = Len(fetchResponses) + 1
  /\ outcome'.state = "rejected"

\* C24: when the token request of a sign-in fails no Google API request is
\* issued, and when a request of findOrCreateMiniLedger fails none follows it;
\* in both cases the sign-in ends with accessToken and ledgerTarget as they
\* were before the attempt (null: a sign-in only runs while signed out),
\* errorMessage the failure's message and statusMessage 'Unable to complete
\* sign-in.'.
C24_FailedSignInChangesNothing ==
  /\ [](SignInInFlight => accessToken = "" /\ ledgerTarget = NoTarget)
  /\ [][SignInFailedAtToken =>
          /\ ~RequestIssued
          /\ pc' = "idle"
          /\ accessToken' = accessToken
          /\ ledgerTarget' = ledgerTarget
          /\ errorMessage' = tokenRequest.message
          /\ statusMessage' = "Unable to complete sign-in."
          /\ ~SignInInFlight']_vars
  /\ [][ResponseFailed => ~RequestIssued /\ pc' = "settled"]_vars
  /\ [][(pc = "settled" /\ outcome.state = "rejected") => ~RequestIssued]_vars
  /\ [][SignInFailedAtLedger =>
          /\ accessToken' = accessToken
          /\ ledgerTarget' = ledgerTarget
          /\ errorMessage' = outcome.message
          /\ statusMessage' = "Unable to complete sign-in."
          /\ ~SignInInFlight']_vars

\* the second request of findOrCreateMiniLedger was refused with a message of
\* its own, and the sign-in has ended on it
C24_Witness ==
  /\ signIns = 1
  /\ ~SignInInFlight
  /\ ~isSigningIn
  /\ accessToken = ""
  /\ ledgerTarget = NoTarget
  /\ statusMessage = "Unable to complete sign-in."
  /\ errorMessage = "Permission denied."

\* the token request failed: the sign-in has ended and nothing was requested
C24_TokenWitness ==
  /\ signIns = 1
  /\ ~SignInInFlight
  /\ statusMessage = "Unable to complete sign-in."
  /\ errorMessage = "OAuth sign-in window was closed before completion."
  /\ fetchCalls = <<>>

\* C25: isSaving is true exactly while the appendLedgerBlock call of a
\* handleSave is awaited, and isSigningIn exactly while a call awaited by
\* handleSignIn is; a handler that returns early sets neither flag; and when
\* every awaited call settles in the end, whichever way, a flag that is set
\* is cleared in the end.
C25_BusyFlagsReleased ==
  /\ [](isSaving <=> SavesInFlight > 0)
  /\ [](isSigningIn <=> \E i \in 1..Len(tasks) : tasks[i].kind = "signIn")
  /\ [][(isSaving' /\ ~isSaving) =>
          accessToken # "" /\ ledgerTarget # NoTarget /\ hotReady]_vars
  /\ [][(isSigningIn' /\ ~isSigningIn) => clientId # ""]_vars
  /\ (isSaving ~> ~isSaving)
  /\ (isSigningIn ~> ~isSigningIn)

\* a save was refused and the flag is down again
C25_Witness ==
  /\ statusMessage = "Save failed."
  /\ appendsStarted = 1
  /\ ~isSaving
  /\ SavesInFlight = 0

\* a click without a client id: an error message and no flag
C25_EarlyReturnWitness ==
  /\ errorMessage = "Missing VITE_GOOGLE_CLIENT_ID in environment configuration."
  /\ ~isSigningIn
  /\ ~isSaving

(***************************************************************************)
(* Claims about the Google script loader                                   *)
(***************************************************************************)
CallsWithoutGoogle == {i \in 1..Len(loadCalls) : ~loadCalls[i].windowGoogle}

\* C26: over the calls of loadGoogleIdentityScript made while window.google
\* is not available, overlapping or one after another, new Promise runs at
\* most once, at most one script element is appended, and every such call
\* returns that one promise, also after it has rejected.
C26_LoadPromiseCreatedOnce ==
  /\ Len(promiseStates) <= 1
  /\ appendedScripts <= 1
  /\ scriptElements <= 1
  /\ \A i \in CallsWithoutGoogle : loadCalls[i].promise = 1 /\ loadPromise = 1

\* three calls without window.google, the last two after the promise rejected
C26_Witness ==
  /\ Len(loadCalls) = 3
  /\ CallsWithoutGoogle = {1, 2, 3}
  /\ promiseStates = <<"rejected">>
  /\ appendedScripts = 1
  /\ scriptListeners = {}

(***************************************************************************)
(* Claims about the sidebar menus                                          *)
(***************************************************************************)
\* C27: for the preset menu and for the save menu, in every reachable state
\* an open menu is visible: after any sequence of toggle, close,
\* outside-click and hide-timer events no menu is open while not visible.
C27_OpenMenuIsVisible ==
  \A menu \in Menus : menuOpen[menu] => menuVisible[menu]


(***************************************************************************)
(* Claims about pointing at cells with the arrow keys                      *)
(***************************************************************************)
RunReference == toA1Reference(session.cursorRow, session.cursorCol)
RunStartedOffToken ==
  /\ run.presses >= 1
  /\ detectReferenceTokenRange(run.input, run.caretPosition).isNull
RunStartedWithoutPendingRange == ~pendingIsUsable(run.pending, run.input)
OneReferenceInserted ==
  /\ editorInput = slice(run.input, 0, run.caretPosition) \o RunReference
                     \o sliceFrom(run.input, run.caretPosition)
  /\ session.pendingReferenceRange =
       Range(run.caretPosition, run.caretPosition + Len(RunReference))
  /\ session.cursorRow \in 0..(GRID_ROWS - 1)
  /\ session.cursorCol \in 0..(activeColumnCount - 1)

\* C28 as stated: after k >= 1 arrow presses with no other key in between,
\* begun with the caret off every reference token, the editor holds the text
\* of before the first press with one reference inserted at that caret, the
\* A1 name of the cursor cell, which pendingReferenceRange spans, and the
\* cursor is inside the grid.
C28_ArrowRunInsertsAtTheCaret ==
  RunStartedOffToken => OneReferenceInserted

\* C28, amended: the same when, in addition, the first press found no usable
\* pendingReferenceRange; a range an earlier press, click or toggle left
\* behind is what the first press replaces instead.
C28_ArrowRunInsertsOneReference ==
  (RunStartedOffToken /\ RunStartedWithoutPendingRange) => OneReferenceInserted

\* a run of two presses or more that began inside a longer formula
C28_Witness ==
  /\ run.presses >= 2
  /\ RunStartedOffToken
  /\ RunStartedWithoutPendingRange
  /\ Len(run.input) > 1
  /\ run.caretPosition < Len(run.input)
  /\ OneReferenceInserted


(***************************************************************************)
(* Claims about the style store                                            *)
(***************************************************************************)
HasTruthyProperty(style) ==
  \E p \in DOMAIN style : p \in StyleProps /\ ~Falsy(style[p])
MergedStyle ==
  LET k == key(styleCall.cell[1], styleCall.cell[2])
      previous == IF k \in DOMAIN styleCall.before THEN styleCall.before[k] ELSE EmptyStore
  IN [p \in DOMAIN previous \cup DOMAIN styleCall.patch |->
        IF p \in DOMAIN styleCall.patch THEN styleCall.patch[p] ELSE previous[p]]

\* C29: after any sequence of setCellStyle and clearAllStyles calls no entry
\* of the store has only falsy properties; a setCellStyle call whose merged
\* style has no truthy property leaves the cell without an entry (getCellStyle
\* returns undefined), any other call leaves the merge of the previous style
\* and the patch there, and the entries of all other cells are as before.
C29_StoreHoldsNoEmptyStyle ==
  /\ \A k \in DOMAIN store : HasTruthyProperty(store[k])
  /\ styleCall.op = "setCellStyle" =>
       LET k == key(styleCall.cell[1], styleCall.cell[2])
       IN /\ IF HasTruthyProperty(MergedStyle)
               THEN k \in DOMAIN store /\ store[k] = MergedStyle
               ELSE /\ k \notin DOMAIN store
                    /\ getCellStyle(store, styleCall.cell[1], styleCall.cell[2]) = EmptyStore
          /\ DOMAIN store \ {k} = DOMAIN styleCall.before \ {k}
          /\ \A j \in DOMAIN store \ {k} : store[j] = styleCall.before[j]
  /\ styleCall.op = "clearAllStyles" => store = EmptyStore

\* a patch emptied the style of a cell while another cell kept its own
C29_Witness ==
  /\ styleCall.op = "setCellStyle"
  /\ key(styleCall.cell[1], styleCall.cell[2]) \in DOMAIN styleCall.before
  /\ ~HasTruthyProperty(MergedStyle)
  /\ DOMAIN MergedStyle # {}
  /\ DOMAIN store # {}

\* a patch with a falsy value was merged into a style that stays
C29_MergeWitness ==
  /\ styleCall.op = "setCellStyle"
  /\ \E p \in DOMAIN styleCall.patch : Falsy(styleCall.patch[p])
  /\ key(styleCall.cell[1], styleCall.cell[2]) \in DOMAIN styleCall.before
  /\ HasTruthyProperty(MergedStyle)
  /\ MergedStyle # styleCall.patch

====
